---- MODULE Spec2Model ----
(***************************************************************************)
(* A model of the entitlement validation engine of the alure repository:   *)
(*   - LicenseKeyGenerator   (src/generate_license_keys.py)                *)
(*   - LicenseManager        (src/license_manager.py)                      *)
(*   - ReceiptVerifier       (src/sdk-python/alure_sdk/receipt.py)         *)
(*   - FileStorage           (src/sdk-python/alure_sdk/storage.py)         *)
(*   - AlureClient           (src/sdk-python/alure_sdk/client.py)          *)
(*   - ensure_license        (src/sdk-python/examples/client_app.py)       *)
(* Text is a sequence of one-character strings.  SHA-256 is computed bit   *)
(* for bit; HMAC-SHA256, Fernet and Ed25519 are symbolic.                  *)
(***************************************************************************)
EXTENDS Integers, Sequences, FiniteSets, TLC

VARIABLES
  call,         \* the operation that ran last, with its arguments
  ret,          \* what that operation returned (or the exception it raised)
  held_key,     \* the key text at hand: generated, typed or edited
  key_source,   \* how that key came about
  clock,        \* datetime.now()
  machine_id,   \* LicenseManager.machine_id
  license_file, \* license/license.json: the dict in it (or the text, when
                \* it is not one json.dump wrote), NoDict when absent
  file_source,  \* how that file came about
  held_license, \* the dict a caller holds and passes to validate_license
  license_source, \* how that dict came about
  token,        \* the receipt a caller holds: payload and signature state
  receipt_file, \* receipt.json of the client's storage, empty when absent
  machine_id_file, \* license/.machine_id, empty when absent
  descriptors,  \* what the platform reports about the machine
  callers,      \* the calls of _get_or_create_machine_id under way, each
                \* with its position and what it has read
  startup       \* where check_license_on_startup stands, and its answers so far

vars == << call, ret, held_key, key_source, clock, machine_id, license_file,
           file_source, held_license, license_source, token, receipt_file,
           machine_id_file, descriptors, callers, startup >>

None == << "None" >>        \* Python's None

NumCallers == 3
Callers == 1..NumCallers
\* no call of _get_or_create_machine_id is under way
NoCallers == [p \in Callers |-> [pc |-> "idle"]]
\* check_license_on_startup is not under way
NotStarted == [pc |-> "idle"]

(***************************************************************************)
(* Text                                                                    *)
(***************************************************************************)
Ascii ==
  (
     ("0" :> 48) @@ ("1" :> 49) @@ ("2" :> 50) @@ ("3" :> 51) @@ ("4" :> 52) @@ ("5" :> 53) @@
     ("6" :> 54) @@ ("7" :> 55) @@ ("8" :> 56) @@ ("9" :> 57) @@ ("A" :> 65) @@ ("B" :> 66) @@
     ("C" :> 67) @@ ("D" :> 68) @@ ("E" :> 69) @@ ("F" :> 70) @@ ("G" :> 71) @@ ("H" :> 72) @@
     ("I" :> 73) @@ ("J" :> 74) @@ ("K" :> 75) @@ ("L" :> 76) @@ ("M" :> 77) @@ ("N" :> 78) @@
     ("O" :> 79) @@ ("P" :> 80) @@ ("Q" :> 81) @@ ("R" :> 82) @@ ("S" :> 83) @@ ("T" :> 84) @@
     ("U" :> 85) @@ ("V" :> 86) @@ ("W" :> 87) @@ ("X" :> 88) @@ ("Y" :> 89) @@ ("Z" :> 90) @@
     ("a" :> 97) @@ ("b" :> 98) @@ ("c" :> 99) @@ ("d" :> 100) @@ ("e" :> 101) @@ ("f" :> 102) @@
     ("g" :> 103) @@ ("h" :> 104) @@ ("i" :> 105) @@ ("j" :> 106) @@ ("k" :> 107) @@ ("l" :> 108) @@
     ("m" :> 109) @@ ("n" :> 110) @@ ("o" :> 111) @@ ("p" :> 112) @@ ("q" :> 113) @@ ("r" :> 114) @@
     ("s" :> 115) @@ ("t" :> 116) @@ ("u" :> 117) @@ ("v" :> 118) @@ ("w" :> 119) @@ ("x" :> 120) @@
     ("y" :> 121) @@ ("z" :> 122) @@ ("-" :> 45) @@ ("|" :> 124) @@ (" " :> 32) @@ ("." :> 46) @@
     ("_" :> 95) @@ (":" :> 58) @@ ("+" :> 43) @@ ("=" :> 61) @@ ("/" :> 47) @@ ("*" :> 42) )

LowerToUpper ==
  (
     ("a" :> "A") @@ ("b" :> "B") @@ ("c" :> "C") @@ ("d" :> "D") @@ ("e" :> "E") @@ ("f" :> "F") @@
     ("g" :> "G") @@ ("h" :> "H") @@ ("i" :> "I") @@ ("j" :> "J") @@ ("k" :> "K") @@ ("l" :> "L") @@
     ("m" :> "M") @@ ("n" :> "N") @@ ("o" :> "O") @@ ("p" :> "P") @@ ("q" :> "Q") @@ ("r" :> "R") @@
     ("s" :> "S") @@ ("t" :> "T") @@ ("u" :> "U") @@ ("v" :> "V") @@ ("w" :> "W") @@ ("x" :> "X") @@
     ("y" :> "Y") @@ ("z" :> "Z") )

\* str.upper(), character by character
UpperChar(c) == IF c \in DOMAIN LowerToUpper THEN LowerToUpper[c] ELSE c
Upper(s) == [i \in 1..Len(s) |-> UpperChar(s[i])]

UpperLetters == { LowerToUpper[c] : c \in DOMAIN LowerToUpper }
Digits == { "0", "1", "2", "3", "4", "5", "6", "7", "8", "9" }
IsUpperAlpha(c) == c \in UpperLetters
IsDigit(c) == c \in Digits
IsUpperAlnum(c) == c \in UpperLetters \cup Digits

AllIn(s, from, to, Test(_)) == \A i \in from..to : Test(s[i])

\* sub in s   (Python's substring test)
Contains(s, sub) ==
  \E i \in 1..(Len(s) - Len(sub) + 1) : SubSeq(s, i, i + Len(sub) - 1) = sub

\* s.split(sep): the parts between the separators, left to right
SepPositions(s, sep) == { i \in 1..Len(s) : s[i] = sep }
Split(s, sep) ==
  LET P == SepPositions(s, sep)
      Nth(k) == CHOOSE i \in P : Cardinality({ j \in P : j < i }) = k - 1
      From(k) == IF k = 1 THEN 1 ELSE Nth(k - 1) + 1
      To(k) == IF k = Cardinality(P) + 1 THEN Len(s) ELSE Nth(k) - 1
  IN  [k \in 1..(Cardinality(P) + 1) |-> SubSeq(s, From(k), To(k))]

\* sep.join(parts) for up to six parts
Join(parts, sep) ==
  LET P(k) == IF k <= Len(parts)
              THEN (IF k = 1 THEN << >> ELSE sep) \o parts[k]
              ELSE << >>
  IN  P(1) \o P(2) \o P(3) \o P(4) \o P(5) \o P(6)

\* s[:n]
Take(s, n) == SubSeq(s, 1, IF Len(s) < n THEN Len(s) ELSE n)

\* s.ljust(n, fill)
Ljust(s, n, fill) ==
  IF Len(s) >= n THEN s ELSE s \o [i \in 1..(n - Len(s)) |-> fill]

\* s.encode(): the ASCII codes
Encode(s) == [i \in 1..Len(s) |-> Ascii[s[i]]]

(***************************************************************************)
(* hashlib.sha256.  A 32-bit word is << high 16 bits, low 16 bits >>.      *)
(***************************************************************************)
Sha256K ==
  <<
     <<17034, 12184>>, <<28983, 17553>>, <<46528, 64463>>, <<59829, 56229>>,
     <<14678, 49755>>, <<23025, 4593>>, <<37439, 33444>>, <<43804, 24277>>,
     <<55303, 43672>>, <<4739, 23297>>, <<9265, 34238>>, <<21772, 32195>>,
     <<29374, 23924>>, <<32990, 45566>>, <<39900, 1703>>, <<49563, 61812>>,
     <<58523, 27073>>, <<61374, 18310>>, <<4033, 40390>>, <<9228, 41420>>,
     <<11753, 11375>>, <<19060, 33962>>, <<23728, 43484>>, <<30457, 35034>>,
     <<38974, 20818>>, <<43057, 50797>>, <<45059, 10184>>, <<48985, 32711>>,
     <<50912, 3059>>, <<54695, 37191>>, <<1738, 25425>>, <<5161, 10599>>,
     <<10167, 2693>>, <<11803, 8504>>, <<19756, 28156>>, <<21304, 3347>>,
     <<25866, 29524>>, <<30314, 2747>>, <<33218, 51502>>, <<37490, 11397>>,
     <<41663, 59553>>, <<43034, 26187>>, <<49739, 35696>>, <<51052, 20899>>,
     <<53650, 59417>>, <<54937, 1572>>, <<62478, 13701>>, <<4202, 41072>>,
     <<6564, 49430>>, <<7735, 27656>>, <<10056, 30540>>, <<13488, 48309>>,
     <<14620, 3251>>, <<20184, 43594>>, <<23452, 51791>>, <<26670, 28659>>,
     <<29839, 33518>>, <<30885, 25455>>, <<33992, 30740>>, <<36039, 520>>,
     <<37054, 65530>>, <<42064, 27883>>, <<48889, 41975>>, <<50801, 30962>> >>

Sha256H0 ==
  <<
     <<27145, 58983>>, <<47975, 44677>>, <<15470, 62322>>, <<42319, 62778>>,
     <<20750, 21119>>, <<39685, 26764>>, <<8067, 55723>>, <<23520, 52505>> >>

\* 4-bit XOR and AND tables, entry [a + 1][b + 1]
XorNib ==
  <<
     << 0, 1, 2, 3, 4, 5, 6, 7, 8, 9, 10, 11, 12, 13, 14, 15 >>,
     << 1, 0, 3, 2, 5, 4, 7, 6, 9, 8, 11, 10, 13, 12, 15, 14 >>,
     << 2, 3, 0, 1, 6, 7, 4, 5, 10, 11, 8, 9, 14, 15, 12, 13 >>,
     << 3, 2, 1, 0, 7, 6, 5, 4, 11, 10, 9, 8, 15, 14, 13, 12 >>,
     << 4, 5, 6, 7, 0, 1, 2, 3, 12, 13, 14, 15, 8, 9, 10, 11 >>,
     << 5, 4, 7, 6, 1, 0, 3, 2, 13, 12, 15, 14, 9, 8, 11, 10 >>,
     << 6, 7, 4, 5, 2, 3, 0, 1, 14, 15, 12, 13, 10, 11, 8, 9 >>,
     << 7, 6, 5, 4, 3, 2, 1, 0, 15, 14, 13, 12, 11, 10, 9, 8 >>,
     << 8, 9, 10, 11, 12, 13, 14, 15, 0, 1, 2, 3, 4, 5, 6, 7 >>,
     << 9, 8, 11, 10, 13, 12, 15, 14, 1, 0, 3, 2, 5, 4, 7, 6 >>,
     << 10, 11, 8, 9, 14, 15, 12, 13, 2, 3, 0, 1, 6, 7, 4, 5 >>,
     << 11, 10, 9, 8, 15, 14, 13, 12, 3, 2, 1, 0, 7, 6, 5, 4 >>,
     << 12, 13, 14, 15, 8, 9, 10, 11, 4, 5, 6, 7, 0, 1, 2, 3 >>,
     << 13, 12, 15, 14, 9, 8, 11, 10, 5, 4, 7, 6, 1, 0, 3, 2 >>,
     << 14, 15, 12, 13, 10, 11, 8, 9, 6, 7, 4, 5, 2, 3, 0, 1 >>,
     << 15, 14, 13, 12, 11, 10, 9, 8, 7, 6, 5, 4, 3, 2, 1, 0 >> >>

AndNib ==
  <<
     << 0, 0, 0, 0, 0, 0, 0, 0, 0, 0, 0, 0, 0, 0, 0, 0 >>,
     << 0, 1, 0, 1, 0, 1, 0, 1, 0, 1, 0, 1, 0, 1, 0, 1 >>,
     << 0, 0, 2, 2, 0, 0, 2, 2, 0, 0, 2, 2, 0, 0, 2, 2 >>,
     << 0, 1, 2, 3, 0, 1, 2, 3, 0, 1, 2, 3, 0, 1, 2, 3 >>,
     << 0, 0, 0, 0, 4, 4, 4, 4, 0, 0, 0, 0, 4, 4, 4, 4 >>,
     << 0, 1, 0, 1, 4, 5, 4, 5, 0, 1, 0, 1, 4, 5, 4, 5 >>,
     << 0, 0, 2, 2, 4, 4, 6, 6, 0, 0, 2, 2, 4, 4, 6, 6 >>,
     << 0, 1, 2, 3, 4, 5, 6, 7, 0, 1, 2, 3, 4, 5, 6, 7 >>,
     << 0, 0, 0, 0, 0, 0, 0, 0, 8, 8, 8, 8, 8, 8, 8, 8 >>,
     << 0, 1, 0, 1, 0, 1, 0, 1, 8, 9, 8, 9, 8, 9, 8, 9 >>,
     << 0, 0, 2, 2, 0, 0, 2, 2, 8, 8, 10, 10, 8, 8, 10, 10 >>,
     << 0, 1, 2, 3, 0, 1, 2, 3, 8, 9, 10, 11, 8, 9, 10, 11 >>,
     << 0, 0, 0, 0, 4, 4, 4, 4, 8, 8, 8, 8, 12, 12, 12, 12 >>,
     << 0, 1, 0, 1, 4, 5, 4, 5, 8, 9, 8, 9, 12, 13, 12, 13 >>,
     << 0, 0, 2, 2, 4, 4, 6, 6, 8, 8, 10, 10, 12, 12, 14, 14 >>,
     << 0, 1, 2, 3, 4, 5, 6, 7, 8, 9, 10, 11, 12, 13, 14, 15 >> >>

Xor16(a, b) ==
    XorNib[(a % 16) + 1][(b % 16) + 1]
  + 16 * XorNib[((a \div 16) % 16) + 1][((b \div 16) % 16) + 1]
  + 256 * XorNib[((a \div 256) % 16) + 1][((b \div 256) % 16) + 1]
  + 4096 * XorNib[(a \div 4096) + 1][(b \div 4096) + 1]

And16(a, b) ==
    AndNib[(a % 16) + 1][(b % 16) + 1]
  + 16 * AndNib[((a \div 16) % 16) + 1][((b \div 16) % 16) + 1]
  + 256 * AndNib[((a \div 256) % 16) + 1][((b \div 256) % 16) + 1]
  + 4096 * AndNib[(a \div 4096) + 1][(b \div 4096) + 1]

WXor(a, b) == << Xor16(a[1], b[1]), Xor16(a[2], b[2]) >>
WAnd(a, b) == << And16(a[1], b[1]), And16(a[2], b[2]) >>
WNot(a) == << 65535 - a[1], 65535 - a[2] >>
WAdd(a, b) ==
  LET lo == a[2] + b[2]
  IN  << (a[1] + b[1] + (lo \div 65536)) % 65536, lo % 65536 >>

Pow2 == << 2, 4, 8, 16, 32, 64, 128, 256, 512, 1024, 2048, 4096, 8192,
           16384, 32768, 65536 >>

\* rotate / shift right by n, 0 < n < 32, n # 16
RotR(a, n) ==
  LET m == n % 16
      x == IF n > 16 THEN << a[2], a[1] >> ELSE a
  IN  << (x[1] \div Pow2[m]) + (x[2] % Pow2[m]) * Pow2[16 - m],
         (x[2] \div Pow2[m]) + (x[1] % Pow2[m]) * Pow2[16 - m] >>

\* 0 < n < 16
ShR(a, n) ==
  << a[1] \div Pow2[n],
     (a[2] \div Pow2[n]) + (a[1] % Pow2[n]) * Pow2[16 - n] >>

SmallSigma0(x) == WXor(WXor(RotR(x, 7), RotR(x, 18)), ShR(x, 3))
SmallSigma1(x) == WXor(WXor(RotR(x, 17), RotR(x, 19)), ShR(x, 10))
BigSigma0(x) == WXor(WXor(RotR(x, 2), RotR(x, 13)), RotR(x, 22))
BigSigma1(x) == WXor(WXor(RotR(x, 6), RotR(x, 11)), RotR(x, 25))
Ch(x, y, z) == WXor(WAnd(x, y), WAnd(WNot(x), z))
Maj(x, y, z) == WXor(WXor(WAnd(x, y), WAnd(x, z)), WAnd(y, z))

\* the message, 0x80, zeros, and the bit length in 64 bits
Sha256Pad(bytes) ==
  LET n == Len(bytes)
      z == (119 - n) % 64
      bits == 8 * n
  IN  bytes \o << 128 >> \o [i \in 1..z |-> 0] \o << 0, 0, 0, 0, 0, 0 >>
            \o << bits \div 256, bits % 256 >>

BlockWord(p, base, i) ==
  << 256 * p[base + 4 * i - 3] + p[base + 4 * i - 2],
     256 * p[base + 4 * i - 1] + p[base + 4 * i] >>

ScheduleStep(w) ==
  LET t == Len(w) + 1
  IN  Append(w, WAdd(WAdd(SmallSigma1(w[t - 2]), w[t - 7]),
                     WAdd(SmallSigma0(w[t - 15]), w[t - 16])))

\* The loops are unrolled eight steps at a time, each step's result bound
\* before the next step reads it (this keeps the evaluation shallow).
Schedule8(w0) ==
  CHOOSE r \in
    { ScheduleStep(w7) : w7 \in { ScheduleStep(w6) : w6 \in
    { ScheduleStep(w5) : w5 \in { ScheduleStep(w4) : w4 \in
    { ScheduleStep(w3) : w3 \in { ScheduleStep(w2) : w2 \in
    { ScheduleStep(w1) : w1 \in { ScheduleStep(w0) } } } } } } } } : TRUE

Schedule(w16) ==
  CHOOSE r \in
    { Schedule8(w56) : w56 \in { Schedule8(w48) : w48 \in
    { Schedule8(w40) : w40 \in { Schedule8(w32) : w32 \in
    { Schedule8(w24) : w24 \in { Schedule8(w16) } } } } } } : TRUE

RoundStep(s, kt, wt) ==
  LET t1 == WAdd(WAdd(WAdd(s[8], BigSigma1(s[5])),
                      WAdd(Ch(s[5], s[6], s[7]), kt)), wt)
      t2 == WAdd(BigSigma0(s[1]), Maj(s[1], s[2], s[3]))
  IN  << WAdd(t1, t2), s[1], s[2], s[3], WAdd(s[4], t1), s[5], s[6], s[7] >>

\* rounds t+1 .. t+8
Rounds8(s0, w, t) ==
  CHOOSE r \in
    { RoundStep(s7, Sha256K[t + 8], w[t + 8]) : s7 \in
    { RoundStep(s6, Sha256K[t + 7], w[t + 7]) : s6 \in
    { RoundStep(s5, Sha256K[t + 6], w[t + 6]) : s5 \in
    { RoundStep(s4, Sha256K[t + 5], w[t + 5]) : s4 \in
    { RoundStep(s3, Sha256K[t + 4], w[t + 4]) : s3 \in
    { RoundStep(s2, Sha256K[t + 3], w[t + 3]) : s2 \in
    { RoundStep(s1, Sha256K[t + 2], w[t + 2]) : s1 \in
    { RoundStep(s0, Sha256K[t + 1], w[t + 1]) } } } } } } } } : TRUE

Rounds(h, w) ==
  CHOOSE r \in
    { Rounds8(s56, w, 56) : s56 \in { Rounds8(s48, w, 48) : s48 \in
    { Rounds8(s40, w, 40) : s40 \in { Rounds8(s32, w, 32) : s32 \in
    { Rounds8(s24, w, 24) : s24 \in { Rounds8(s16, w, 16) : s16 \in
    { Rounds8(s8, w, 8) : s8 \in { Rounds8(h, w, 0) } } } } } } } } : TRUE

Compress(h, p, base) ==
  CHOOSE r \in
    { [i \in 1..8 |-> WAdd(h[i], s[i])] :
        s \in { Rounds(h, w) :
                 w \in { Schedule([i \in 1..16 |-> BlockWord(p, base, i)]) } } } : TRUE

RECURSIVE Blocks(_, _, _)
Blocks(h, p, base) ==
  IF base >= Len(p) THEN h
  ELSE CHOOSE r \in { Blocks(g, p, base + 64) : g \in { Compress(h, p, base) } } : TRUE

Sha256(bytes) == Blocks(Sha256H0, Sha256Pad(bytes), 0)

HexDigits == << "0", "1", "2", "3", "4", "5", "6", "7", "8", "9",
                "a", "b", "c", "d", "e", "f" >>
Hex16(x) == << HexDigits[(x \div 4096) + 1], HexDigits[((x \div 256) % 16) + 1],
               HexDigits[((x \div 16) % 16) + 1], HexDigits[(x % 16) + 1] >>

\* hashlib.sha256(s.encode()).hexdigest()[:4]
Sha256HexPrefix4(s) == Hex16(Sha256(Encode(s))[1][1])

(***************************************************************************)
(* Python values.  A str is a sequence of one-character strings; None and  *)
(* exceptions are one-element sequences holding a longer tag.              *)
(***************************************************************************)
ValueError == << "ValueError" >>
TypeError == << "TypeError" >>
IsStr(v) == \A i \in 1..Len(v) : v[i] \in DOMAIN Ascii

TRIAL == << "T", "R", "I", "A", "L" >>
STANDARD == << "S", "T", "A", "N", "D", "A", "R", "D" >>
PROFESSIONAL == << "P", "R", "O", "F", "E", "S", "S", "I", "O", "N", "A", "L" >>
ENTERPRISE == << "E", "N", "T", "E", "R", "P", "R", "I", "S", "E" >>
Dash == << "-" >>

(***************************************************************************)
(* Inputs of the key operations                                            *)
(***************************************************************************)
\* license types handed to generate_license_key; DEMO is not a type
GenTypes == { TRIAL, STANDARD, PROFESSIONAL, ENTERPRISE, << "D", "E", "M", "O" >> }

\* customer codes handed to generate_license_key
CustomerCodes ==
  { None, << >>,
    << "A", "C", "M", "E" >>,
    << "a", "b" >>,
    << "P", "R", "O", "X" >>,
    << "A", "-", "B" >>,
    << "A", " ", "B" >>,
    << "A", "C", "M", "E", "Z" >> }

\* readings of datetime.now() in generate_license_key: << year, month >>
GenClocks == { << 2026, 11 >> }

\* what secrets.choice can deliver, by segment
SegmentPool ==
  { << "K", "7", "Q", "Z" >>,
    << "A", "A", "3", "B", "C" >>,
    << "A", "A", "3", "B", "D" >> }

\* keys a user types into the manager
TypedKeys ==
  { << "T", "R", "I", "A", "L", "-", "2", "0", "2", "4", "-", "V", "E", "R", "I", "F", "I", "C", "A" >>,
    << "p", "r", "o", "-", "2", "0", "2", "4", "-", "v", "e", "r", "i", "f", "i", "c", "a" >>,
    << "M", "E", "D", "I", "A", "M", "A", "R", "K", "E", "T", "-", "M", "A", "S", "T", "E", "R", "-", "2", "0", "2", "4" >>,
    << "V", "T", "O", "O", "L", "-", "T", "R", "I", "A", "L", "-", "0", "0", "0", "0", "1", "-", "T", "E", "S", "T", "1" >>,
    << "V", "T", "O", "O", "L", "-", "P", "R", "O", "F", "E", "-", "0", "0", "0", "0", "1", "-", "T", "E", "S", "T", "1" >>,
    << "V", "T", "O", "O", "L", "-", "S", "T", "D", "-", "2", "0", "2", "4", "0", "1", "0", "1", "-", "T", "R", "I", "A", "L" >>,
    << "V", "T", "O", "O", "L", "-", "A", "B", "C", "-", "2", "0", "2", "4", "0", "1", "0", "1", "-", "X", "P", "R", "O", "1" >>,
    << "V", "T", "O", "O", "L", "-", "A", "1", "B", "2", "C", "-", "D", "3", "E", "4", "F", "-", "G", "5", "H", "6", "J" >>,
    << "M", "Y", "-", "E", "N", "T", "-", "K", "E", "Y" >>,
    << "H", "E", "L", "L", "O", "-", "W", "O", "R", "L", "D" >>,
    << "V", "S", "2", "4", "-", "2", "6", "1", "1", "-", "P", "R", "O", "X", "-", "A", "A", "3", "B", "C", "-", "0", "0", "0", "0" >>,
    << "V", "E", "2", "4", "-", "2", "6", "1", "1", "-", "A", "C", "M", "E", "-", "A", "A", "3", "B", "C", "-", "8", "3", "5", "4" >>,
    << "v", "p", "2", "4", "-", "2", "6", "1", "1", "-", "a", "c", "m", "e", "-", "a", "a", "3", "b", "c", "-", "0", "f", "f", "f" >>,
    << "V", "X", "2", "4", "-", "2", "6", "1", "1", "-", "A", "C", "M", "E", "-", "A", "A", "3", "B", "C", "-", "0", "0", "0", "0" >> }

\* keys that are no generated key at all
MalformedKeys ==
  { None, << >>,
    << "V", "S", "2", "4" >>,
    << "V", "S", "2", "4", "-", "2", "6", "1", "1", "-", "A", "C", "M", "E", "-", "A", "A", "3", "B", "C" >>,
    << "V", "S", "2", "4", "-", "2", "6", "1", "1", "-", "A", "C", "M", "E", "-", "A", "A", "3", "B", "C", "-", "A", "E", "9", "9", "-", "A", "E", "9", "9" >>,
    << "-", "-", "-", "-" >> }

\* the characters an edit writes over a character of a key
EditChars == { "D", "9", "-" }

\* the clock when the model starts: 2026-11-02T10:00:00
StartDay == 20759
StartSecond == 36000
StartClock == << StartDay, StartSecond, 0 >>

\* machine ids: sixteen hexadecimal digits, which may all be decimal ones
HexMachine == << "a", "3", "f", "9", "1", "c", "0", "e", "5", "b", "7", "d", "2", "4", "6", "8" >>
DecimalMachine == << "4", "0", "7", "1", "9", "3", "6", "5", "8", "2", "2", "6", "0", "7", "1", "5" >>
OtherMachine == << "7", "7", "c", "0", "f", "f", "e", "e", "0", "0", "c", "0", "f", "f", "e", "e" >>
Machines == { HexMachine, DecimalMachine }

(***************************************************************************)
(* LicenseKeyGenerator                                                     *)
(***************************************************************************)
LICENSE_PREFIXES ==
  (TRIAL :> << "V", "T", "2", "5" >>) @@
  (STANDARD :> << "V", "S", "2", "4" >>) @@
  (PROFESSIONAL :> << "V", "P", "2", "4" >>) @@
  (ENTERPRISE :> << "V", "E", "2", "5" >>)

\* the alphabet of generate_secure_segment: A-Z and 0-9 without 0, O, 1, I
SecureChars == (UpperLetters \cup Digits) \ { "0", "O", "1", "I" }

\* generate_secure_segment(length): any text of that length over SecureChars,
\* drawn from a pool
generate_secure_segment(length, pool) ==
  { s \in pool : Len(s) = length /\ \A i \in 1..Len(s) : s[i] \in SecureChars }

\* datetime.now().strftime("%y%m") for a clock reading << year, month >>
Digit2(n) == << HexDigits[((n \div 10) % 10) + 1], HexDigits[(n % 10) + 1] >>
StrftimeYYMM(now) == Digit2(now[1] % 100) \o Digit2(now[2])

\* truthiness of an optional str argument
Truthy(v) == v # None /\ v # << >>

\* the customer segment of generate_license_key
CustomerSegment(customer_code, seg4) ==
  IF Truthy(customer_code)
  THEN Ljust(Upper(Take(customer_code, 4)), 4, "X")
  ELSE seg4

\* hexdigest()[:4] of the SHA-256 digests of the texts the key operations
\* hash on the inputs above, as Sha256HexPrefix4 computes them
KnownDigests ==
  { << << >>, << "e", "3", "b", "0" >> >>,
    << << "9", "S", "2", "4", "2", "6", "1", "1", "A", "C", "M", "E", "A", "A", "3", "B", "C" >>, << "9", "f", "2", "5" >> >>,
    << << "D", "S", "2", "4", "2", "6", "1", "1", "A", "C", "M", "E", "A", "A", "3", "B", "C" >>, << "6", "3", "7", "1" >> >>,
    << << "V", "9", "2", "4", "2", "6", "1", "1", "A", "C", "M", "E", "A", "A", "3", "B", "C" >>, << "f", "1", "7", "3" >> >>,
    << << "V", "D", "2", "4", "2", "6", "1", "1", "A", "C", "M", "E", "A", "A", "3", "B", "C" >>, << "b", "5", "e", "3" >> >>,
    << << "V", "E", "2", "4", "2", "6", "1", "1", "A", "C", "M", "E", "A", "A", "3", "B", "C" >>, << "8", "3", "5", "4" >> >>,
    << << "V", "E", "2", "5", "2", "6", "1", "1", "A", " ", "B", "X", "A", "A", "3", "B", "C" >>, << "c", "6", "d", "8" >> >>,
    << << "V", "E", "2", "5", "2", "6", "1", "1", "A", " ", "B", "X", "A", "A", "3", "B", "D" >>, << "0", "c", "9", "a" >> >>,
    << << "V", "E", "2", "5", "2", "6", "1", "1", "A", "-", "B", "X", "A", "A", "3", "B", "C" >>, << "6", "0", "f", "7" >> >>,
    << << "V", "E", "2", "5", "2", "6", "1", "1", "A", "-", "B", "X", "A", "A", "3", "B", "D" >>, << "3", "9", "c", "4" >> >>,
    << << "V", "E", "2", "5", "2", "6", "1", "1", "A", "B", "X", "X", "A", "A", "3", "B", "C" >>, << "e", "3", "a", "b" >> >>,
    << << "V", "E", "2", "5", "2", "6", "1", "1", "A", "B", "X", "X", "A", "A", "3", "B", "D" >>, << "7", "0", "8", "d" >> >>,
    << << "V", "E", "2", "5", "2", "6", "1", "1", "A", "C", "M", "E", "A", "A", "3", "B", "C" >>, << "e", "0", "e", "2" >> >>,
    << << "V", "E", "2", "5", "2", "6", "1", "1", "A", "C", "M", "E", "A", "A", "3", "B", "D" >>, << "8", "1", "f", "1" >> >>,
    << << "V", "E", "2", "5", "2", "6", "1", "1", "K", "7", "Q", "Z", "A", "A", "3", "B", "C" >>, << "c", "8", "e", "7" >> >>,
    << << "V", "E", "2", "5", "2", "6", "1", "1", "K", "7", "Q", "Z", "A", "A", "3", "B", "D" >>, << "e", "3", "f", "a" >> >>,
    << << "V", "E", "2", "5", "2", "6", "1", "1", "P", "R", "O", "X", "A", "A", "3", "B", "C" >>, << "7", "2", "3", "c" >> >>,
    << << "V", "E", "2", "5", "2", "6", "1", "1", "P", "R", "O", "X", "A", "A", "3", "B", "D" >>, << "d", "3", "5", "0" >> >>,
    << << "V", "P", "2", "4", "2", "6", "1", "1", "A", " ", "B", "X", "A", "A", "3", "B", "C" >>, << "a", "4", "a", "e" >> >>,
    << << "V", "P", "2", "4", "2", "6", "1", "1", "A", " ", "B", "X", "A", "A", "3", "B", "D" >>, << "1", "3", "2", "d" >> >>,
    << << "V", "P", "2", "4", "2", "6", "1", "1", "A", "-", "B", "X", "A", "A", "3", "B", "C" >>, << "9", "e", "f", "f" >> >>,
    << << "V", "P", "2", "4", "2", "6", "1", "1", "A", "-", "B", "X", "A", "A", "3", "B", "D" >>, << "2", "2", "e", "f" >> >>,
    << << "V", "P", "2", "4", "2", "6", "1", "1", "A", "B", "X", "X", "A", "A", "3", "B", "C" >>, << "2", "5", "8", "1" >> >>,
    << << "V", "P", "2", "4", "2", "6", "1", "1", "A", "B", "X", "X", "A", "A", "3", "B", "D" >>, << "1", "c", "d", "0" >> >>,
    << << "V", "P", "2", "4", "2", "6", "1", "1", "A", "C", "M", "E", "A", "A", "3", "B", "C" >>, << "0", "f", "f", "f" >> >>,
    << << "V", "P", "2", "4", "2", "6", "1", "1", "A", "C", "M", "E", "A", "A", "3", "B", "D" >>, << "e", "7", "6", "3" >> >>,
    << << "V", "P", "2", "4", "2", "6", "1", "1", "K", "7", "Q", "Z", "A", "A", "3", "B", "C" >>, << "3", "2", "c", "f" >> >>,
    << << "V", "P", "2", "4", "2", "6", "1", "1", "K", "7", "Q", "Z", "A", "A", "3", "B", "D" >>, << "c", "5", "6", "d" >> >>,
    << << "V", "P", "2", "4", "2", "6", "1", "1", "P", "R", "O", "X", "A", "A", "3", "B", "C" >>, << "1", "2", "d", "e" >> >>,
    << << "V", "P", "2", "4", "2", "6", "1", "1", "P", "R", "O", "X", "A", "A", "3", "B", "D" >>, << "9", "f", "6", "3" >> >>,
    << << "V", "S", "2", "4", "2", "6", "1", "1", "9", "C", "M", "E", "A", "A", "3", "B", "C" >>, << "e", "a", "e", "c" >> >>,
    << << "V", "S", "2", "4", "2", "6", "1", "1", "A", " ", "B", "X", "A", "A", "3", "B", "C" >>, << "6", "0", "9", "0" >> >>,
    << << "V", "S", "2", "4", "2", "6", "1", "1", "A", " ", "B", "X", "A", "A", "3", "B", "D" >>, << "4", "8", "1", "2" >> >>,
    << << "V", "S", "2", "4", "2", "6", "1", "1", "A", "-", "B", "X", "A", "A", "3", "B", "C" >>, << "8", "3", "c", "4" >> >>,
    << << "V", "S", "2", "4", "2", "6", "1", "1", "A", "-", "B", "X", "A", "A", "3", "B", "D" >>, << "6", "9", "6", "c" >> >>,
    << << "V", "S", "2", "4", "2", "6", "1", "1", "A", "9", "M", "E", "A", "A", "3", "B", "C" >>, << "5", "5", "4", "a" >> >>,
    << << "V", "S", "2", "4", "2", "6", "1", "1", "A", "B", "X", "X", "A", "A", "3", "B", "C" >>, << "2", "1", "a", "4" >> >>,
    << << "V", "S", "2", "4", "2", "6", "1", "1", "A", "B", "X", "X", "A", "A", "3", "B", "D" >>, << "f", "d", "6", "9" >> >>,
    << << "V", "S", "2", "4", "2", "6", "1", "1", "A", "C", "9", "E", "A", "A", "3", "B", "C" >>, << "4", "b", "c", "e" >> >>,
    << << "V", "S", "2", "4", "2", "6", "1", "1", "A", "C", "D", "E", "A", "A", "3", "B", "C" >>, << "d", "9", "d", "1" >> >>,
    << << "V", "S", "2", "4", "2", "6", "1", "1", "A", "C", "M", "9", "A", "A", "3", "B", "C" >>, << "c", "8", "b", "2" >> >>,
    << << "V", "S", "2", "4", "2", "6", "1", "1", "A", "C", "M", "D", "A", "A", "3", "B", "C" >>, << "2", "2", "9", "9" >> >>,
    << << "V", "S", "2", "4", "2", "6", "1", "1", "A", "C", "M", "E", "9", "A", "3", "B", "C" >>, << "6", "8", "5", "4" >> >>,
    << << "V", "S", "2", "4", "2", "6", "1", "1", "A", "C", "M", "E", "A", "9", "3", "B", "C" >>, << "6", "0", "0", "e" >> >>,
    << << "V", "S", "2", "4", "2", "6", "1", "1", "A", "C", "M", "E", "A", "A", "3", "9", "C" >>, << "b", "0", "e", "d" >> >>,
    << << "V", "S", "2", "4", "2", "6", "1", "1", "A", "C", "M", "E", "A", "A", "3", "B", "9" >>, << "2", "b", "d", "2" >> >>,
    << << "V", "S", "2", "4", "2", "6", "1", "1", "A", "C", "M", "E", "A", "A", "3", "B", "C" >>, << "a", "e", "9", "9" >> >>,
    << << "V", "S", "2", "4", "2", "6", "1", "1", "A", "C", "M", "E", "A", "A", "3", "B", "D" >>, << "a", "e", "9", "9" >> >>,
    << << "V", "S", "2", "4", "2", "6", "1", "1", "A", "C", "M", "E", "A", "A", "3", "D", "C" >>, << "3", "c", "3", "6" >> >>,
    << << "V", "S", "2", "4", "2", "6", "1", "1", "A", "C", "M", "E", "A", "A", "9", "B", "C" >>, << "4", "a", "8", "b" >> >>,
    << << "V", "S", "2", "4", "2", "6", "1", "1", "A", "C", "M", "E", "A", "A", "D", "B", "C" >>, << "1", "2", "8", "2" >> >>,
    << << "V", "S", "2", "4", "2", "6", "1", "1", "A", "C", "M", "E", "A", "D", "3", "B", "C" >>, << "6", "d", "9", "b" >> >>,
    << << "V", "S", "2", "4", "2", "6", "1", "1", "A", "C", "M", "E", "D", "A", "3", "B", "C" >>, << "4", "1", "f", "b" >> >>,
    << << "V", "S", "2", "4", "2", "6", "1", "1", "A", "D", "M", "E", "A", "A", "3", "B", "C" >>, << "2", "3", "e", "9" >> >>,
    << << "V", "S", "2", "4", "2", "6", "1", "1", "D", "C", "M", "E", "A", "A", "3", "B", "C" >>, << "d", "8", "9", "6" >> >>,
    << << "V", "S", "2", "4", "2", "6", "1", "1", "K", "7", "Q", "Z", "A", "A", "3", "B", "C" >>, << "c", "2", "e", "5" >> >>,
    << << "V", "S", "2", "4", "2", "6", "1", "1", "K", "7", "Q", "Z", "A", "A", "3", "B", "D" >>, << "d", "8", "8", "2" >> >>,
    << << "V", "S", "2", "4", "2", "6", "1", "1", "P", "R", "O", "X", "A", "A", "3", "B", "C" >>, << "5", "5", "1", "a" >> >>,
    << << "V", "S", "2", "4", "2", "6", "1", "1", "P", "R", "O", "X", "A", "A", "3", "B", "D" >>, << "2", "7", "5", "b" >> >>,
    << << "V", "S", "2", "4", "2", "6", "1", "9", "A", "C", "M", "E", "A", "A", "3", "B", "C" >>, << "0", "2", "5", "2" >> >>,
    << << "V", "S", "2", "4", "2", "6", "1", "D", "A", "C", "M", "E", "A", "A", "3", "B", "C" >>, << "6", "4", "a", "7" >> >>,
    << << "V", "S", "2", "4", "2", "6", "9", "1", "A", "C", "M", "E", "A", "A", "3", "B", "C" >>, << "3", "b", "9", "c" >> >>,
    << << "V", "S", "2", "4", "2", "6", "D", "1", "A", "C", "M", "E", "A", "A", "3", "B", "C" >>, << "1", "9", "c", "c" >> >>,
    << << "V", "S", "2", "4", "2", "9", "1", "1", "A", "C", "M", "E", "A", "A", "3", "B", "C" >>, << "6", "6", "e", "e" >> >>,
    << << "V", "S", "2", "4", "2", "D", "1", "1", "A", "C", "M", "E", "A", "A", "3", "B", "C" >>, << "2", "8", "f", "f" >> >>,
    << << "V", "S", "2", "4", "9", "6", "1", "1", "A", "C", "M", "E", "A", "A", "3", "B", "C" >>, << "b", "6", "8", "0" >> >>,
    << << "V", "S", "2", "4", "D", "6", "1", "1", "A", "C", "M", "E", "A", "A", "3", "B", "C" >>, << "f", "1", "f", "0" >> >>,
    << << "V", "S", "2", "9", "2", "6", "1", "1", "A", "C", "M", "E", "A", "A", "3", "B", "C" >>, << "5", "3", "9", "7" >> >>,
    << << "V", "S", "2", "D", "2", "6", "1", "1", "A", "C", "M", "E", "A", "A", "3", "B", "C" >>, << "1", "1", "1", "9" >> >>,
    << << "V", "S", "9", "4", "2", "6", "1", "1", "A", "C", "M", "E", "A", "A", "3", "B", "C" >>, << "7", "1", "3", "5" >> >>,
    << << "V", "S", "D", "4", "2", "6", "1", "1", "A", "C", "M", "E", "A", "A", "3", "B", "C" >>, << "6", "6", "3", "0" >> >>,
    << << "V", "T", "2", "5", "2", "6", "1", "1", "A", " ", "B", "X", "A", "A", "3", "B", "C" >>, << "e", "f", "d", "5" >> >>,
    << << "V", "T", "2", "5", "2", "6", "1", "1", "A", " ", "B", "X", "A", "A", "3", "B", "D" >>, << "1", "0", "b", "a" >> >>,
    << << "V", "T", "2", "5", "2", "6", "1", "1", "A", "-", "B", "X", "A", "A", "3", "B", "C" >>, << "8", "0", "f", "2" >> >>,
    << << "V", "T", "2", "5", "2", "6", "1", "1", "A", "-", "B", "X", "A", "A", "3", "B", "D" >>, << "1", "e", "9", "a" >> >>,
    << << "V", "T", "2", "5", "2", "6", "1", "1", "A", "B", "X", "X", "A", "A", "3", "B", "C" >>, << "5", "0", "1", "a" >> >>,
    << << "V", "T", "2", "5", "2", "6", "1", "1", "A", "B", "X", "X", "A", "A", "3", "B", "D" >>, << "c", "d", "5", "0" >> >>,
    << << "V", "T", "2", "5", "2", "6", "1", "1", "A", "C", "M", "E", "A", "A", "3", "B", "C" >>, << "e", "b", "2", "6" >> >>,
    << << "V", "T", "2", "5", "2", "6", "1", "1", "A", "C", "M", "E", "A", "A", "3", "B", "D" >>, << "b", "4", "4", "6" >> >>,
    << << "V", "T", "2", "5", "2", "6", "1", "1", "K", "7", "Q", "Z", "A", "A", "3", "B", "C" >>, << "6", "d", "1", "f" >> >>,
    << << "V", "T", "2", "5", "2", "6", "1", "1", "K", "7", "Q", "Z", "A", "A", "3", "B", "D" >>, << "4", "1", "7", "d" >> >>,
    << << "V", "T", "2", "5", "2", "6", "1", "1", "P", "R", "O", "X", "A", "A", "3", "B", "C" >>, << "8", "a", "8", "3" >> >>,
    << << "V", "T", "2", "5", "2", "6", "1", "1", "P", "R", "O", "X", "A", "A", "3", "B", "D" >>, << "9", "5", "b", "a" >> >>,
    << << "V", "X", "2", "4", "2", "6", "1", "1", "A", "C", "M", "E", "A", "A", "3", "B", "C" >>, << "4", "b", "4", "3" >> >>,
    << << "v", "p", "2", "4", "2", "6", "1", "1", "a", "c", "m", "e", "a", "a", "3", "b", "c" >>, << "5", "1", "f", "f" >> >>,
    << << "S", "2", "4", "2", "6", "1", "1", "A", "C", "M", "E" >>, << "9", "a", "0", "7" >> >>,
    << << "V", "2", "4", "2", "6", "1", "1", "A", "C", "M", "E" >>, << "0", "c", "0", "c" >> >>,
    << << "V", "S", "4", "2", "6", "1", "1", "A", "C", "M", "E" >>, << "2", "6", "d", "d" >> >>,
    << << "V", "S", "2", "2", "6", "1", "1", "A", "C", "M", "E" >>, << "a", "0", "a", "e" >> >>,
    << << "V", "S", "2", "4", "6", "1", "1", "A", "C", "M", "E" >>, << "2", "0", "2", "c" >> >>,
    << << "V", "S", "2", "4", "2", "1", "1", "A", "C", "M", "E" >>, << "7", "f", "7", "9" >> >>,
    << << "V", "S", "2", "4", "2", "6", "1", "A", "C", "M", "E" >>, << "9", "2", "a", "b" >> >>,
    << << "V", "S", "2", "4", "2", "6", "1", "1", "C", "M", "E" >>, << "8", "4", "8", "8" >> >>,
    << << "V", "S", "2", "4", "2", "6", "1", "1", "A", "M", "E" >>, << "b", "d", "c", "6" >> >>,
    << << "V", "S", "2", "4", "2", "6", "1", "1", "A", "C", "E" >>, << "c", "1", "5", "2" >> >>,
    << << "V", "S", "2", "4", "2", "6", "1", "1", "A", "C", "M" >>, << "2", "f", "4", "b" >> >>,
    << << "V", "S", "2", "4", "2", "6", "1", "1", "A", "C", "M", "E" >>, << "0", "9", "d", "b" >> >>,
    << << "V", "S", "2", "4", "2", "6", "1", "1", "A", "C", "M", "E", "A" >>, << "5", "0", "b", "e" >> >>,
    << << "V", "S", "2", "4", "2", "6", "1", "1", "A", "C", "M", "E", "A", "A" >>, << "d", "0", "a", "e" >> >>,
    << << "V", "S", "2", "4", "2", "6", "1", "1", "A", "C", "M", "E", "A", "A", "3" >>, << "1", "e", "8", "f" >> >>,
    << << "V", "S", "2", "4", "2", "6", "1", "1", "A", "C", "M", "E", "A", "A", "3", "B" >>, << "1", "6", "b", "3" >> >> }

\* hashlib.sha256(s.encode()).hexdigest()[:4], for the texts above
Sha256Hex4(s) == (CHOOSE p \in KnownDigests : p[1] = s)[2]

generate_checksum(key_parts) == Upper(Sha256Hex4(Join(key_parts, << >>)))

generate_license_key(license_type, customer_code, now, seg4, seg5) ==
  IF license_type \notin DOMAIN LICENSE_PREFIXES THEN ValueError
  ELSE LET prefix == LICENSE_PREFIXES[license_type]
           time_segment == StrftimeYYMM(now)
           customer_segment == CustomerSegment(customer_code, seg4)
           random_segment == seg5
           key_parts == << prefix, time_segment, customer_segment, random_segment >>
           checksum == generate_checksum(key_parts)
       IN  Join(Append(key_parts, checksum), Dash)

\* validate_generated_key without the count of the parts
validate_generated_key_AnyCount(key) ==
  IF ~IsStr(key) THEN FALSE
  ELSE LET parts == Split(key, "-")
       IN  IF Len(parts) < 5 THEN FALSE
           ELSE parts[5] = generate_checksum(SubSeq(parts, 1, 4))

validate_generated_key(key) ==
  IF ~IsStr(key) THEN FALSE
  ELSE LET parts == Split(key, "-")
       IN  IF Len(parts) # 5 THEN FALSE
           ELSE parts[5] = generate_checksum(SubSeq(parts, 1, 4))

get_license_type_from_key(key) ==
  IF ~IsStr(key) THEN None
  ELSE LET prefix == Split(key, "-")[1]
           hits == { t \in DOMAIN LICENSE_PREFIXES : LICENSE_PREFIXES[t] = prefix }
       IN  IF hits = {} THEN None ELSE CHOOSE t \in hits : TRUE

(***************************************************************************)
(* LicenseManager: keys                                                    *)
(***************************************************************************)
predefined_keys ==
  (<< "T", "R", "I", "A", "L", "-", "2", "0", "2", "4", "-", "V", "E", "R", "I", "F", "I", "C", "A" >> :>
     [type |-> << "T", "r", "i", "a", "l" >>, duration_days |-> 2]) @@
  (<< "S", "T", "A", "N", "D", "A", "R", "D", "-", "2", "0", "2", "4", "-", "V", "E", "R", "I", "F", "I", "C", "A" >> :>
     [type |-> << "S", "t", "a", "n", "d", "a", "r", "d" >>, duration_days |-> 365]) @@
  (<< "P", "R", "O", "-", "2", "0", "2", "4", "-", "V", "E", "R", "I", "F", "I", "C", "A" >> :>
     [type |-> << "P", "r", "o", "f", "e", "s", "s", "i", "o", "n", "a", "l" >>, duration_days |-> 365]) @@
  (<< "E", "N", "T", "E", "R", "P", "R", "I", "S", "E", "-", "2", "0", "2", "4", "-", "V", "E", "R", "I", "F", "I", "C", "A" >> :>
     [type |-> << "E", "n", "t", "e", "r", "p", "r", "i", "s", "e" >>, duration_days |-> 1095]) @@
  (<< "M", "E", "D", "I", "A", "M", "A", "R", "K", "E", "T", "-", "M", "A", "S", "T", "E", "R", "-", "2", "0", "2", "4" >> :>
     [type |-> << "E", "n", "t", "e", "r", "p", "r", "i", "s", "e" >>, duration_days |-> 3650])

\* the entries whose key equals license_key, case-insensitively
PredefinedHits(license_key) ==
  { k \in DOMAIN predefined_keys : Upper(k) = Upper(license_key) }

_verify_generated_key_checksum(license_key) ==
  IF ~IsStr(license_key) THEN FALSE
  ELSE LET parts == Split(license_key, "-")
       IN  IF Len(parts) # 5 THEN FALSE
           ELSE parts[5] = Upper(Sha256Hex4(Join(SubSeq(parts, 1, 4), << >>)))

\* ^([A-Z]{2}\d{2})-(\d{4})-([A-Z0-9]{4})-([A-Z0-9]{5})-([A-Z0-9]{4})$
generated_pattern(u) ==
  LET p == Split(u, "-")
  IN  /\ Len(p) = 5
      /\ Len(p[1]) = 4 /\ AllIn(p[1], 1, 2, IsUpperAlpha) /\ AllIn(p[1], 3, 4, IsDigit)
      /\ Len(p[2]) = 4 /\ AllIn(p[2], 1, 4, IsDigit)
      /\ Len(p[3]) = 4 /\ AllIn(p[3], 1, 4, IsUpperAlnum)
      /\ Len(p[4]) = 5 /\ AllIn(p[4], 1, 5, IsUpperAlnum)
      /\ Len(p[5]) = 4 /\ AllIn(p[5], 1, 4, IsUpperAlnum)

type_mapping ==
  (<< "V", "T", "2", "4" >> :> [type |-> TRIAL, duration_days |-> 7]) @@
  (<< "V", "S", "2", "4" >> :> [type |-> STANDARD, duration_days |-> 365]) @@
  (<< "V", "P", "2", "4" >> :> [type |-> PROFESSIONAL, duration_days |-> 1095]) @@
  (<< "V", "E", "2", "4" >> :> [type |-> ENTERPRISE, duration_days |-> 3650]) @@
  (<< "V", "T", "2", "3" >> :> [type |-> TRIAL, duration_days |-> 7]) @@
  (<< "V", "S", "2", "3" >> :> [type |-> STANDARD, duration_days |-> 365]) @@
  (<< "V", "P", "2", "3" >> :> [type |-> PROFESSIONAL, duration_days |-> 1095]) @@
  (<< "V", "E", "2", "3" >> :> [type |-> ENTERPRISE, duration_days |-> 3650]) @@
  (<< "V", "T", "2", "5" >> :> [type |-> TRIAL, duration_days |-> 7]) @@
  (<< "V", "S", "2", "5" >> :> [type |-> STANDARD, duration_days |-> 365]) @@
  (<< "V", "P", "2", "5" >> :> [type |-> PROFESSIONAL, duration_days |-> 1095]) @@
  (<< "V", "E", "2", "5" >> :> [type |-> ENTERPRISE, duration_days |-> 0])

_analyze_generated_key(license_key) ==
  LET license_key_upper == Upper(license_key)
  IN  IF /\ generated_pattern(license_key_upper)
         /\ Split(license_key_upper, "-")[1] \in DOMAIN type_mapping
      THEN IF _verify_generated_key_checksum(license_key_upper)
           THEN [is_valid |-> TRUE,
                 type |-> type_mapping[Split(license_key_upper, "-")[1]].type,
                 duration_days |->
                   type_mapping[Split(license_key_upper, "-")[1]].duration_days]
           ELSE [is_valid |-> FALSE, reason |-> "Checksum non valido"]
      ELSE [is_valid |-> FALSE, reason |-> "Formato non riconosciuto"]

test_keys ==
  (<< "V", "T", "O", "O", "L", "-", "T", "R", "I", "A", "L", "-", "0", "0", "0", "0", "1", "-", "T", "E", "S", "T", "1" >> :> TRIAL) @@
  (<< "V", "T", "O", "O", "L", "-", "S", "T", "A", "N", "D", "-", "0", "0", "0", "0", "1", "-", "T", "E", "S", "T", "1" >> :> STANDARD) @@
  (<< "V", "T", "O", "O", "L", "-", "P", "R", "O", "F", "E", "-", "0", "0", "0", "0", "1", "-", "T", "E", "S", "T", "1" >> :> PROFESSIONAL) @@
  (<< "V", "T", "O", "O", "L", "-", "E", "N", "T", "E", "R", "-", "0", "0", "0", "0", "1", "-", "T", "E", "S", "T", "1" >> :> ENTERPRISE)

VTOOL == << "V", "T", "O", "O", "L" >>

\* ^VTOOL-([A-Z]+)-(\d{8})-([A-Z0-9]+)$
vtool_pattern(u) ==
  LET p == Split(u, "-")
  IN  /\ Len(p) = 4
      /\ p[1] = VTOOL
      /\ Len(p[2]) >= 1 /\ AllIn(p[2], 1, Len(p[2]), IsUpperAlpha)
      /\ Len(p[3]) = 8 /\ AllIn(p[3], 1, 8, IsDigit)
      /\ Len(p[4]) >= 1 /\ AllIn(p[4], 1, Len(p[4]), IsUpperAlnum)

vtool_type_mapping ==
  (<< "T", "R", "L" >> :> TRIAL) @@ (<< "S", "T", "D" >> :> STANDARD) @@
  (<< "P", "R", "O" >> :> PROFESSIONAL) @@ (<< "E", "N", "T" >> :> ENTERPRISE)

\* stage 1: the predefined-key table
PredefinedType(license_key) ==
  IF PredefinedHits(license_key) = {} THEN None
  ELSE Upper(predefined_keys[CHOOSE k \in PredefinedHits(license_key) : TRUE].type)

\* stage 2: the structured decode of a generated key
AnalyzedType(license_key) ==
  IF _analyze_generated_key(license_key).is_valid
  THEN _analyze_generated_key(license_key).type
  ELSE None

\* stage 3: the test keys and the VTOOL pattern
PatternType(license_key) ==
  LET u == Upper(license_key)
  IN  IF u \in DOMAIN test_keys THEN test_keys[u]
      ELSE IF vtool_pattern(u) /\ Split(u, "-")[2] \in DOMAIN vtool_type_mapping
           THEN vtool_type_mapping[Split(u, "-")[2]]
           ELSE None

\* stage 4: the substring fallback
HeuristicType(license_key) ==
  LET u == Upper(license_key)
  IN  IF Contains(u, TRIAL) \/ Contains(u, << "T", "R", "L" >>) THEN TRIAL
      ELSE IF Contains(u, << "S", "T", "A", "N", "D" >>) \/ Contains(u, << "S", "T", "D" >>) THEN STANDARD
      ELSE IF Contains(u, << "P", "R", "O", "F", "E" >>) \/ Contains(u, << "P", "R", "O" >>) THEN PROFESSIONAL
      ELSE IF Contains(u, << "E", "N", "T", "E", "R" >>) \/ Contains(u, << "E", "N", "T" >>) THEN ENTERPRISE
      ELSE None

\* _determine_license_type with the substring heuristics tried first
_determine_license_type_HeuristicsFirst(license_key) ==
  IF HeuristicType(license_key) # None THEN HeuristicType(license_key)
  ELSE IF PredefinedType(license_key) # None THEN PredefinedType(license_key)
  ELSE IF AnalyzedType(license_key) # None THEN AnalyzedType(license_key)
  ELSE PatternType(license_key)

_determine_license_type(license_key) ==
  IF PredefinedType(license_key) # None THEN PredefinedType(license_key)
  ELSE IF AnalyzedType(license_key) # None THEN AnalyzedType(license_key)
  ELSE IF PatternType(license_key) # None THEN PatternType(license_key)
  ELSE HeuristicType(license_key)

\* ^VTOOL-[A-Z]{3}-\d{8}-[A-Z0-9]{4,8}$
new_pattern(u) ==
  LET p == Split(u, "-")
  IN  /\ Len(p) = 4
      /\ p[1] = VTOOL
      /\ Len(p[2]) = 3 /\ AllIn(p[2], 1, 3, IsUpperAlpha)
      /\ Len(p[3]) = 8 /\ AllIn(p[3], 1, 8, IsDigit)
      /\ Len(p[4]) \in 4..8 /\ AllIn(p[4], 1, Len(p[4]), IsUpperAlnum)

\* ^VTOOL-[A-Z0-9]{5}-[A-Z0-9]{5}-[A-Z0-9]{5}$
legacy_pattern(u) ==
  LET p == Split(u, "-")
  IN  /\ Len(p) = 4
      /\ p[1] = VTOOL
      /\ \A i \in 2..4 : Len(p[i]) = 5 /\ AllIn(p[i], 1, 5, IsUpperAlnum)

_validate_license_key_format(license_key) ==
  LET license_key_upper == Upper(license_key)
  IN  \/ PredefinedHits(license_key) # {}
      \/ new_pattern(license_key_upper)
      \/ generated_pattern(license_key_upper)
      \/ legacy_pattern(license_key_upper)

(***************************************************************************)
(* The machine and its descriptors (license_manager.py, lines 91-135)      *)
(***************************************************************************)
\* platform.node(), platform.machine(), platform.processor() and
\* str(uuid.getnode()) of a workstation, of the same one renamed, and of one
\* whose descriptors have gone
Workstation == [node |-> << "h", "o", "s", "t", "-", "a" >>, machine |-> << "x", "8", "6", "_", "6", "4" >>, processor |-> << >>, mac |-> << "5", "2", "2", "4", "3" >>]
Renamed == [node |-> << "h", "o", "s", "t", "-", "b" >>, machine |-> << "x", "8", "6", "_", "6", "4" >>, processor |-> << >>, mac |-> << "5", "2", "2", "4", "3" >>]
Bare == [node |-> << >>, machine |-> << >>, processor |-> << >>, mac |-> << "7", "7" >>]
Descriptors == { Workstation, Renamed, Bare }

\* hexdigest()[:16] of the SHA-256 digests of the machine strings and node
\* names of these descriptors
MachineDigests ==
  { << << >>,
       << "e", "3", "b", "0", "c", "4", "4", "2", "9", "8", "f", "c", "1", "c", "1", "4" >> >>,
    << << "7", "7" >>,
       << "a", "8", "8", "a", "7", "9", "0", "2", "c", "b", "4", "e", "f", "6", "9", "7" >> >>,
    << << "h", "o", "s", "t", "-", "a" >>,
       << "c", "1", "5", "1", "e", "3", "9", "2", "c", "a", "5", "2", "d", "5", "7", "3" >> >>,
    << << "h", "o", "s", "t", "-", "a", "|", "x", "8", "6", "_", "6", "4", "|", "5", "2", "2", "4", "3" >>,
       << "a", "9", "a", "7", "1", "f", "6", "e", "4", "a", "c", "1", "3", "4", "4", "1" >> >>,
    << << "h", "o", "s", "t", "-", "b" >>,
       << "8", "6", "9", "4", "7", "d", "1", "4", "a", "f", "5", "6", "7", "4", "9", "f" >> >>,
    << << "h", "o", "s", "t", "-", "b", "|", "x", "8", "6", "_", "6", "4", "|", "5", "2", "2", "4", "3" >>,
       << "8", "7", "0", "5", "a", "f", "8", "4", "c", "8", "c", "3", "0", "3", "6", "e" >> >> }

\* hashlib.sha256(s.encode()).hexdigest()[:16]
Sha256Hex16(s) == (CHOOSE p \in MachineDigests : p[1] = s)[2]
(***************************************************************************)
(* Python values in a JSON record.  A str is a text; an int is the tag     *)
(* "int" followed by its decimal digits; None is None.                     *)
(***************************************************************************)
PyInt(digits) == << "int" >> \o digits
IsInt(v) == Len(v) > 0 /\ v[1] = "int"
IsText(v) == v # None /\ ~IsInt(v)

\* what an f-string writes for a value
Format(v) ==
  IF v = None THEN << "N", "o", "n", "e" >>
  ELSE IF IsInt(v) THEN Tail(v)
  ELSE v

\* Optional[dict]: None is the empty sequence, a dict the sequence holding it
NoDict == << >>
Some(d) == << d >>
EmptyDict == [f \in {} |-> None]

\* Optional[int]: None is the empty sequence, an int the sequence holding it
NoDuration == << >>

\* d.get(field): None when the field is missing
Get(d, field) == IF field \in DOMAIN d THEN d[field] ELSE None

\* the dict without a field
Without(d, field) == [f \in DOMAIN d \ { field } |-> d[f]]

(***************************************************************************)
(* datetime.  A naive datetime is << day, second, microsecond >>: days     *)
(* since 1970-01-01, seconds since midnight, microseconds.                 *)
(***************************************************************************)
IsLeap(y) == (y % 4 = 0 /\ y % 100 # 0) \/ y % 400 = 0

DaysInMonth(y, m) ==
  IF m = 2 THEN (IF IsLeap(y) THEN 29 ELSE 28)
  ELSE IF m \in { 4, 6, 9, 11 } THEN 30 ELSE 31

\* << year, month, day >> of a day number (proleptic Gregorian calendar)
CivilFromDays(days) ==
  LET z == days + 719468
      era == z \div 146097
      doe == z - era * 146097
      yoe == (doe - (doe \div 1460) + (doe \div 36524) - (doe \div 146096)) \div 365
      doy == doe - (365 * yoe + (yoe \div 4) - (yoe \div 100))
      mp == (5 * doy + 2) \div 153
      d == doy - ((153 * mp + 2) \div 5) + 1
      m == IF mp < 10 THEN mp + 3 ELSE mp - 9
      y == yoe + era * 400 + (IF m <= 2 THEN 1 ELSE 0)
  IN  << y, m, d >>

\* the day number of a date
DaysFromCivil(y, m, d) ==
  LET yy == IF m <= 2 THEN y - 1 ELSE y
      era == yy \div 400
      yoe == yy - era * 400
      mp == IF m > 2 THEN m - 3 ELSE m + 9
      doy == ((153 * mp + 2) \div 5) + d - 1
      doe == yoe * 365 + (yoe \div 4) - (yoe \div 100) + doy
  IN  era * 146097 + doe - 719468

DigitChar(n) == HexDigits[n + 1]
DigitValue(c) == CHOOSE n \in 0..9 : HexDigits[n + 1] = c

Digit4(n) == << DigitChar((n \div 1000) % 10), DigitChar((n \div 100) % 10),
                DigitChar((n \div 10) % 10), DigitChar(n % 10) >>
Digit6(n) == << DigitChar((n \div 100000) % 10), DigitChar((n \div 10000) % 10) >>
             \o Digit4(n % 10000)

\* the number a text of up to six digits writes
Number(s) ==
  LET P == << 1, 10, 100, 1000, 10000, 100000 >>
      D(i) == IF i <= Len(s) THEN DigitValue(s[i]) * P[Len(s) - i + 1] ELSE 0
  IN  D(1) + D(2) + D(3) + D(4) + D(5) + D(6)

\* datetime.isoformat(): the microseconds are written only when not zero
IsoFormat(dt) ==
  LET c == CivilFromDays(dt[1])
  IN  Digit4(c[1]) \o << "-" >> \o Digit2(c[2]) \o << "-" >> \o Digit2(c[3])
        \o << "T" >> \o Digit2(dt[2] \div 3600) \o << ":" >>
        \o Digit2((dt[2] \div 60) % 60) \o << ":" >> \o Digit2(dt[2] % 60)
        \o (IF dt[3] = 0 THEN << >> ELSE << "." >> \o Digit6(dt[3]))

\* expiry.strftime('%d/%m/%Y')
StrftimeDMY(dt) ==
  LET c == CivilFromDays(dt[1])
  IN  Digit2(c[3]) \o << "/" >> \o Digit2(c[2]) \o << "/" >> \o Digit4(c[1])

\* timedelta subtracted where it is to be added
AddDays_Backwards(dt, n) == << dt[1] - n, dt[2], dt[3] >>

\* datetime + timedelta(days=n)
AddDays(dt, n) == << dt[1] + n, dt[2], dt[3] >>

\* a > b for naive datetimes
Later(a, b) ==
  \/ a[1] > b[1]
  \/ a[1] = b[1] /\ a[2] > b[2]
  \/ a[1] = b[1] /\ a[2] = b[2] /\ a[3] > b[3]

\* YYYY-MM-DD
IsoDateShape(s) ==
  /\ Len(s) >= 10
  /\ AllIn(s, 1, 4, IsDigit) /\ s[5] = "-" /\ AllIn(s, 6, 7, IsDigit)
  /\ s[8] = "-" /\ AllIn(s, 9, 10, IsDigit)

\* ?HH:MM:SS after the date, with any one character in front
IsoTimeShape(s) ==
  /\ Len(s) >= 19
  /\ AllIn(s, 12, 13, IsDigit) /\ s[14] = ":" /\ AllIn(s, 15, 16, IsDigit)
  /\ s[17] = ":" /\ AllIn(s, 18, 19, IsDigit)

\* .ffffff after the seconds
IsoFractionShape(s) ==
  /\ Len(s) >= 26
  /\ s[20] = "." /\ AllIn(s, 21, 26, IsDigit)

\* Z or +HH:MM or -HH:MM
IsoOffsetShape(s) ==
  \/ s = << "Z" >>
  \/ /\ Len(s) = 6
     /\ s[1] \in { "+", "-" }
     /\ AllIn(s, 2, 3, IsDigit) /\ s[4] = ":" /\ AllIn(s, 5, 6, IsDigit)
     /\ Number(SubSeq(s, 2, 3)) < 24 /\ Number(SubSeq(s, 5, 6)) < 60

\* the naive datetime the first n characters write, tagged "naive", or
\* ValueError
IsoFields(s, n) ==
  LET y == Number(SubSeq(s, 1, 4))
      m == Number(SubSeq(s, 6, 7))
      d == Number(SubSeq(s, 9, 10))
      hh == IF n >= 19 THEN Number(SubSeq(s, 12, 13)) ELSE 0
      mm == IF n >= 19 THEN Number(SubSeq(s, 15, 16)) ELSE 0
      ss == IF n >= 19 THEN Number(SubSeq(s, 18, 19)) ELSE 0
      us == IF n >= 26 THEN Number(SubSeq(s, 21, 26)) ELSE 0
  IN  IF /\ y >= 1 /\ m \in 1..12 /\ d \in 1..DaysInMonth(y, m)
         /\ hh < 24 /\ mm < 60 /\ ss < 60
      THEN << "naive", << DaysFromCivil(y, m, d), hh * 3600 + mm * 60 + ss, us >> >>
      ELSE ValueError

\* datetime.fromisoformat(s) for the date, the date with a time of day, with
\* microseconds, and each with a UTC offset behind it: << "naive", datetime >>,
\* << "aware", datetime, offset text >> for a text with an offset, ValueError
\* for any other text and TypeError for a value that is no str.
FromIsoFormat(s) ==
  IF ~IsText(s) THEN TypeError
  ELSE IF ~IsoDateShape(s) THEN ValueError
  ELSE LET n == IF IsoTimeShape(s)
                 THEN (IF IsoFractionShape(s) THEN 26 ELSE 19)
                 ELSE 10
           rest == SubSeq(s, n + 1, Len(s))
       IN  IF rest = << >> THEN IsoFields(s, n)
           ELSE IF n >= 19 /\ IsoOffsetShape(rest) /\ IsoFields(s, n)[1] = "naive"
                THEN << "aware", IsoFields(s, n)[2], rest >>
                ELSE ValueError

(***************************************************************************)
(* Decoding of texts: base64, UTF-8 and JSON, character by character, as   *)
(* the receipts (receipt.py, lines 13-39) and the files read with json.load *)
(* need it.  A character outside printable ASCII is a string of several    *)
(* characters.                                                             *)
(***************************************************************************)
\* an exception leaves the call
Raise(e) == [raised |-> e]

AttributeError == << "AttributeError" >>
BinasciiError == << "binascii.Error" >>

\* any character outside ASCII
NONASCII == "U+00E9"
\* any control character other than tab, line feed and carriage return
CONTROL == "U+0000"
DEL == "U+007F"

UnicodeDecodeError == << "UnicodeDecodeError" >>
JSONDecodeError == << "JSONDecodeError" >>

\* the characters with the codes 32 to 126 (the grave accent by its name)
Printable ==
  << " ", "!", "\"", "#", "$", "%", "&", "'", "(", ")", "*", "+", ",", "-", ".", "/",
     "0", "1", "2", "3", "4", "5", "6", "7", "8", "9", ":", ";", "<", "=", ">", "?",
     "@", "A", "B", "C", "D", "E", "F", "G", "H", "I", "J", "K", "L", "M", "N", "O",
     "P", "Q", "R", "S", "T", "U", "V", "W", "X", "Y", "Z", "[", "\\", "]", "^", "_",
     "U+0060", "a", "b", "c", "d", "e", "f", "g", "h", "i", "j", "k", "l", "m", "n", "o",
     "p", "q", "r", "s", "t", "u", "v", "w", "x", "y", "z", "{", "|", "}", "~" >>

\* chr(code) for a code below 128
Chr(code) ==
  IF code >= 32 /\ code <= 126 THEN Printable[code - 31]
  ELSE IF code = 9 THEN "\t"
  ELSE IF code = 10 THEN "\n"
  ELSE IF code = 13 THEN "\r"
  ELSE IF code = 127 THEN DEL
  ELSE CONTROL

IsAsciiChar(c) == \E i \in 1..95 : Printable[i] = c

Base64Alphabet ==
  << "A", "B", "C", "D", "E", "F", "G", "H", "I", "J", "K", "L", "M", "N", "O", "P",
     "Q", "R", "S", "T", "U", "V", "W", "X", "Y", "Z", "a", "b", "c", "d", "e", "f",
     "g", "h", "i", "j", "k", "l", "m", "n", "o", "p", "q", "r", "s", "t", "u", "v",
     "w", "x", "y", "z", "0", "1", "2", "3", "4", "5", "6", "7", "8", "9", "+", "/" >>

\* binascii's table_a2b_base64: the six bits of a base64 character, 64 for
\* any other character
Base64Value(c) ==
  IF \E i \in 1..64 : Base64Alphabet[i] = c
  THEN (CHOOSE i \in 1..64 : Base64Alphabet[i] = c) - 1
  ELSE 64

\* one character of binascii.a2b_base64 (not strict): padding ends the
\* input once the open quad has two characters and is filled by it; a
\* character outside the alphabet is skipped
A2bStep(st, c) ==
  IF st.done THEN st
  ELSE IF c = "="
       THEN IF st.quad_pos >= 2 /\ st.quad_pos + st.pads + 1 >= 4
            THEN [st EXCEPT !.done = TRUE]
            ELSE IF st.quad_pos >= 2 THEN [st EXCEPT !.pads = @ + 1]
            ELSE st
  ELSE IF Base64Value(c) >= 64 THEN st
  ELSE LET this_ch == Base64Value(c)
       IN  IF st.quad_pos = 0
           THEN [st EXCEPT !.pads = 0, !.quad_pos = 1, !.leftchar = this_ch]
           ELSE IF st.quad_pos = 1
           THEN [st EXCEPT !.pads = 0, !.quad_pos = 2,
                           !.bin_data = Append(@, st.leftchar * 4 + (this_ch \div 16)),
                           !.leftchar = this_ch % 16]
           ELSE IF st.quad_pos = 2
           THEN [st EXCEPT !.pads = 0, !.quad_pos = 3,
                           !.bin_data = Append(@, st.leftchar * 16 + (this_ch \div 4)),
                           !.leftchar = this_ch % 4]
           ELSE [st EXCEPT !.pads = 0, !.quad_pos = 0,
                           !.bin_data = Append(@, st.leftchar * 64 + this_ch),
                           !.leftchar = 0]

\* base64.b64decode(s) for a str: the bytes, or the exception raised
b64decode(s) ==
  LET F[i \in 0..Len(s)] ==
        IF i = 0
        THEN [quad_pos |-> 0, pads |-> 0, leftchar |-> 0, bin_data |-> << >>,
              done |-> FALSE]
        ELSE A2bStep(F[i - 1], s[i])
      end == F[Len(s)]
  IN  IF \E i \in 1..Len(s) : ~IsAsciiChar(s[i]) THEN Raise(ValueError)
      ELSE IF ~end.done /\ end.quad_pos # 0 THEN Raise(BinasciiError)
      ELSE [bytes |-> end.bin_data]

\* _b64url_decode(value)
_b64url_decode(value) ==
  LET padded == [i \in 1..Len(value) |->
                   IF value[i] = "-" THEN "+"
                   ELSE IF value[i] = "_" THEN "/" ELSE value[i]]
  IN  b64decode(padded \o [i \in 1..((4 - (Len(value) % 4)) % 4) |-> "="])

\* how many bytes the UTF-8 sequence starting at b[i] has, 0 when b[i]
\* starts none or the sequence is cut short or malformed
Utf8Length(b, i) ==
  LET n == IF b[i] < 128 THEN 1
           ELSE IF b[i] >= 194 /\ b[i] <= 223 THEN 2
           ELSE IF b[i] >= 224 /\ b[i] <= 239 THEN 3
           ELSE IF b[i] >= 240 /\ b[i] <= 244 THEN 4
           ELSE 0
  IN  IF n = 0 \/ i + n - 1 > Len(b) THEN 0
      ELSE IF \E k \in (i + 1)..(i + n - 1) : b[k] < 128 \/ b[k] > 191 THEN 0
      ELSE IF b[i] = 224 /\ b[i + 1] < 160 THEN 0
      ELSE IF b[i] = 237 /\ b[i + 1] > 159 THEN 0
      ELSE IF b[i] = 240 /\ b[i + 1] < 144 THEN 0
      ELSE IF b[i] = 244 /\ b[i + 1] > 143 THEN 0
      ELSE n

RECURSIVE Utf8From(_, _)
\* the characters of b[i..], with the text "error" in front when some
\* sequence is malformed
Utf8From(b, i) ==
  IF i > Len(b) THEN << >>
  ELSE IF Utf8Length(b, i) = 0 THEN << "error" >>
  ELSE LET rest == Utf8From(b, i + Utf8Length(b, i))
       IN  IF Len(rest) > 0 /\ rest[1] = "error" THEN rest
           ELSE << (IF b[i] < 128 THEN Chr(b[i]) ELSE NONASCII) >> \o rest

\* bytes.decode("utf-8")
Utf8Decode(b) ==
  IF Len(Utf8From(b, 1)) > 0 /\ Utf8From(b, 1)[1] = "error"
  THEN Raise(UnicodeDecodeError)
  ELSE [text |-> Utf8From(b, 1)]

(***************************************************************************)
(* json.loads.  A scan gives << "ok", value, end >> (end is the index      *)
(* after the value) or << "error" >>.                                      *)
(***************************************************************************)
JsonWhitespace == { " ", "\t", "\n", "\r" }
HexChars == Digits \cup { "a", "b", "c", "d", "e", "f", "A", "B", "C", "D", "E", "F" }
ScanError == << "error" >>

\* the index after the run of characters of a class that starts at i
RunEnd(s, i, class) ==
  CHOOSE j \in i..(Len(s) + 1) :
    /\ \A k \in i..(j - 1) : s[k] \in class
    /\ j = Len(s) + 1 \/ s[j] \notin class

\* s[i:i+len(word)] == word
StartsWith(s, i, word) ==
  i + Len(word) - 1 <= Len(s) /\ SubSeq(s, i, i + Len(word) - 1) = word

\* the characters the escapes stand for
Unescape(c) ==
  IF c = "n" THEN "\n" ELSE IF c = "t" THEN "\t" ELSE IF c = "r" THEN "\r"
  ELSE IF c \in { "b", "f" } THEN CONTROL
  ELSE c

RECURSIVE ScanString(_, _)
\* scanstring from the character after the opening quote
ScanString(s, i) ==
  IF i > Len(s) THEN ScanError
  ELSE IF s[i] = "\"" THEN << "ok", << >>, i + 1 >>
  ELSE IF s[i] \in { CONTROL, "\t", "\n", "\r" } THEN ScanError
  ELSE IF s[i] # "\\"
       THEN LET rest == ScanString(s, i + 1)
            IN  IF rest[1] # "ok" THEN ScanError
                ELSE << "ok", << s[i] >> \o rest[2], rest[3] >>
  ELSE IF i + 1 > Len(s) THEN ScanError
  ELSE IF s[i + 1] = "u"
       THEN IF i + 5 > Len(s) \/ \E k \in (i + 2)..(i + 5) : s[k] \notin HexChars
            THEN ScanError
            ELSE LET rest == ScanString(s, i + 6)
                 IN  IF rest[1] # "ok" THEN ScanError
                     ELSE << "ok", << NONASCII >> \o rest[2], rest[3] >>
  ELSE IF s[i + 1] \notin { "\"", "\\", "/", "b", "f", "n", "r", "t" } THEN ScanError
  ELSE LET rest == ScanString(s, i + 2)
       IN  IF rest[1] # "ok" THEN ScanError
           ELSE << "ok", << Unescape(s[i + 1]) >> \o rest[2], rest[3] >>

\* the index after (0|[1-9]\d*) at a, 0 when there is no match
IntEnd(s, a) ==
  IF a > Len(s) \/ s[a] \notin Digits THEN 0
  ELSE IF s[a] = "0" THEN a + 1
  ELSE RunEnd(s, a, Digits)

\* the index after (\.\d+)? at int_end
FracEnd(s, int_end) ==
  IF int_end # 0 /\ int_end + 1 <= Len(s) /\ s[int_end] = "." /\ s[int_end + 1] \in Digits
  THEN RunEnd(s, int_end + 1, Digits)
  ELSE int_end

\* the index where the digits of an exponent must begin after [eE][-+]? at
\* frac_end, 0 when there is no exponent mark
ExpDigits(s, frac_end) ==
  IF frac_end # 0 /\ frac_end + 1 <= Len(s) /\ s[frac_end] \in { "e", "E" }
  THEN (IF s[frac_end + 1] \in { "-", "+" } THEN frac_end + 2 ELSE frac_end + 1)
  ELSE 0

\* the index after ([eE][-+]?\d+)? at frac_end
ExpEnd(s, frac_end, exp_digits) ==
  IF exp_digits # 0 /\ exp_digits <= Len(s) /\ s[exp_digits] \in Digits
  THEN RunEnd(s, exp_digits, Digits)
  ELSE frac_end

\* the index after the number that starts at i, 0 when none does:
\* -?(0|[1-9]\d*)(\.\d+)?([eE][-+]?\d+)?
NumberEnd(s, i) ==
  LET frac_end == FracEnd(s, IntEnd(s, IF s[i] = "-" THEN i + 1 ELSE i))
  IN  ExpEnd(s, frac_end, ExpDigits(s, frac_end))

\* the number s[i..end-1], an int unless it has a fraction or an exponent;
\* no number when end is 0
ScanNumber(s, i, end) ==
  IF end = 0 THEN ScanError
  ELSE << "ok",
          << (IF \E k \in i..(end - 1) : s[k] \in { ".", "e", "E" } THEN "float" ELSE "int"),
             SubSeq(s, i, end - 1) >>,
          end >>

\* dict[key] = value on the items of a dict
SetItem(items, key, value) ==
  IF \E k \in 1..Len(items) : items[k][1] = key
  THEN [k \in 1..Len(items) |->
          IF items[k][1] = key THEN << key, value >> ELSE items[k]]
  ELSE Append(items, << key, value >>)

RECURSIVE ScanOnce(_, _)
RECURSIVE ScanMembers(_, _, _)
RECURSIVE ScanElements(_, _, _)

\* the members of an object from the place where a key must begin
ScanMembers(s, i, items) ==
  IF i > Len(s) \/ s[i] # "\"" THEN ScanError
  ELSE LET key == ScanString(s, i + 1)
       IN  IF key[1] # "ok" THEN ScanError
           ELSE LET colon == RunEnd(s, key[3], JsonWhitespace)
                IN  IF colon > Len(s) \/ s[colon] # ":" THEN ScanError
                    ELSE LET value == ScanOnce(s, RunEnd(s, colon + 1, JsonWhitespace))
                         IN  IF value[1] # "ok" THEN ScanError
                             ELSE LET next == RunEnd(s, value[3], JsonWhitespace)
                                      now_items == SetItem(items, key[2], value[2])
                                  IN  IF next > Len(s) THEN ScanError
                                      ELSE IF s[next] = "}"
                                           THEN << "ok", << "dict", now_items >>, next + 1 >>
                                      ELSE IF s[next] = ","
                                           THEN ScanMembers(s, RunEnd(s, next + 1, JsonWhitespace),
                                                            now_items)
                                      ELSE ScanError

\* the elements of an array from the place where a value must begin
ScanElements(s, i, items) ==
  LET value == ScanOnce(s, i)
  IN  IF value[1] # "ok" THEN ScanError
      ELSE LET next == RunEnd(s, value[3], JsonWhitespace)
           IN  IF next > Len(s) THEN ScanError
               ELSE IF s[next] = "]"
                    THEN << "ok", << "list", Append(items, value[2]) >>, next + 1 >>
               ELSE IF s[next] = ","
                    THEN ScanElements(s, RunEnd(s, next + 1, JsonWhitespace),
                                      Append(items, value[2]))
               ELSE ScanError

\* the scanner's scan_once(s, i)
ScanOnce(s, i) ==
  IF i > Len(s) THEN ScanError
  ELSE IF s[i] = "\""
       THEN LET text == ScanString(s, i + 1)
            IN  IF text[1] # "ok" THEN ScanError
                ELSE << "ok", << "str", text[2] >>, text[3] >>
  ELSE IF s[i] = "{"
       THEN LET first == RunEnd(s, i + 1, JsonWhitespace)
            IN  IF first <= Len(s) /\ s[first] = "}"
                THEN << "ok", << "dict", << >> >>, first + 1 >>
                ELSE ScanMembers(s, first, << >>)
  ELSE IF s[i] = "["
       THEN LET first == RunEnd(s, i + 1, JsonWhitespace)
            IN  IF first <= Len(s) /\ s[first] = "]"
                THEN << "ok", << "list", << >> >>, first + 1 >>
                ELSE ScanElements(s, first, << >>)
  ELSE IF StartsWith(s, i, << "n", "u", "l", "l" >>) THEN << "ok", << "NoneType" >>, i + 4 >>
  ELSE IF StartsWith(s, i, << "t", "r", "u", "e" >>) THEN << "ok", << "bool", TRUE >>, i + 4 >>
  ELSE IF StartsWith(s, i, << "f", "a", "l", "s", "e" >>) THEN << "ok", << "bool", FALSE >>, i + 5 >>
  ELSE IF StartsWith(s, i, << "N", "a", "N" >>) THEN << "ok", << "float", << "N", "a", "N" >> >>, i + 3 >>
  ELSE IF StartsWith(s, i, << "I", "n", "f", "i", "n", "i", "t", "y" >>) THEN << "ok", << "float", << "I", "n", "f", "i", "n", "i", "t", "y" >> >>, i + 8 >>
  ELSE IF StartsWith(s, i, << "-", "I", "n", "f", "i", "n", "i", "t", "y" >>) THEN << "ok", << "float", << "-", "I", "n", "f", "i", "n", "i", "t", "y" >> >>, i + 9 >>
  ELSE ScanNumber(s, i, NumberEnd(s, i))

\* json.loads(s): the value with its type in front, or JSONDecodeError
JsonLoads(s) ==
  LET scanned == ScanOnce(s, RunEnd(s, 1, JsonWhitespace))
  IN  IF scanned[1] # "ok" THEN Raise(JSONDecodeError)
      ELSE IF RunEnd(s, scanned[3], JsonWhitespace) # Len(s) + 1
           THEN Raise(JSONDecodeError)
      ELSE [value |-> scanned[2]]

(***************************************************************************)
(* LicenseManager: records                                                 *)
(***************************************************************************)
SECRET_KEY == << "VerificaTool_V2_2025_SecretKey_MediaMarket_Protection" >>

LICENSE_TYPES ==
  (TRIAL :> [duration_days |-> 30, features |-> << "basic" >>]) @@
  (STANDARD :> [duration_days |-> 365, features |-> << "basic", "advanced" >>]) @@
  (PROFESSIONAL :>
     [duration_days |-> 365, features |-> << "basic", "advanced", "premium" >>]) @@
  (ENTERPRISE :>
     [duration_days |-> 0,
      features |-> << "basic", "advanced", "premium", "enterprise" >>])

\* hmac.new(key, msg, sha256).hexdigest(), symbolically: a text that tells
\* the key and the message apart from every other pair
HmacSha256Hex(key, msg) == << "hmac-sha256(" >> \o key \o << ")" >> \o msg

\* the Fernet key derived from the machine id and the secret
_generate_encryption_key(mid) == << "sha256(" >> \o mid \o SECRET_KEY \o << ")" >>

\* Fernet encryption under the machine's key, symbolically; iv stands for the
\* random initialisation vector and the timestamp of the token
_encrypt_license_key(license_key, mid, iv) ==
  << "fernet(" >> \o _generate_encryption_key(mid) \o << iv, ")" >> \o license_key

\* the plaintext of a token of this machine; any other text comes back as is
_decrypt_license_key(encrypted_key, mid) ==
  LET head == << "fernet(" >> \o _generate_encryption_key(mid)
      n == Len(head)
  IN  IF /\ Len(encrypted_key) >= n + 2
         /\ SubSeq(encrypted_key, 1, n) = head
         /\ encrypted_key[n + 2] = ")"
      THEN SubSeq(encrypted_key, n + 3, Len(encrypted_key))
      ELSE encrypted_key

SignedFields ==
  << "license_key", "machine_id", "license_type", "issued_date", "expiry_date" >>

\* the signed text without the expiry date
SignString_NoExpiry(license_data) ==
  Join([i \in 1..4 |-> Format(license_data[SignedFields[i]])], << "|" >>)

\* the signed text with one more part, as long as the list of features
SignString_WithFeatures(license_data) ==
  Join([i \in 1..5 |-> Format(license_data[SignedFields[i]])], << "|" >>)
    \o << "|" >>
    \o (IF "features" \in DOMAIN license_data
        THEN [i \in 1..Len(license_data.features) |-> "f"] ELSE << >>)

\* f"{license_key}|{machine_id}|{license_type}|{issued_date}|{expiry_date}"
SignString(license_data) ==
  Join([i \in 1..5 |-> Format(license_data[SignedFields[i]])], << "|" >>)

\* for a dict that has the five signed fields (a KeyError otherwise)
_generate_license_signature(license_data) ==
  HmacSha256Hex(SECRET_KEY, SignString(license_data))

\* a missing signed field (KeyError) and a signature that is no str (TypeError
\* of compare_digest) are caught and give False
_verify_license_signature(license_data) ==
  /\ \A i \in 1..5 : SignedFields[i] \in DOMAIN license_data
  /\ "signature" \in DOMAIN license_data => IsText(license_data["signature"])
  /\ (IF "signature" \in DOMAIN license_data
      THEN license_data["signature"] ELSE << >>)
       = _generate_license_signature(license_data)

\* the duration generate_license settles on
EffectiveDuration(license_key, license_type, duration_days) ==
  IF duration_days # NoDuration THEN duration_days[1]
  ELSE IF PredefinedHits(license_key) # {}
       THEN predefined_keys[CHOOSE k \in PredefinedHits(license_key) : TRUE].duration_days
       ELSE IF _analyze_generated_key(license_key).is_valid
            THEN _analyze_generated_key(license_key).duration_days
            ELSE LICENSE_TYPES[license_type].duration_days

\* generate_license on machine mid; now1 and now2 are the two readings of
\* datetime.now(), the first for issued_date and the second for expiry_date
generate_license(license_key, license_type, duration_days, mid, now1, now2, iv) ==
  IF license_type \notin DOMAIN LICENSE_TYPES THEN ValueError
  ELSE LET days == EffectiveDuration(license_key, license_type, duration_days)
           issued_date == IsoFormat(now1)
           expiry_date == IF days > 0 THEN IsoFormat(AddDays(now2, days))
                          ELSE << "u", "n", "l", "i", "m", "i", "t", "e", "d" >>
           license_data ==
             [license_key |-> _encrypt_license_key(license_key, mid, iv),
              machine_id |-> mid,
              license_type |-> license_type,
              issued_date |-> issued_date,
              expiry_date |-> expiry_date,
              features |-> LICENSE_TYPES[license_type].features,
              version |-> << "2", ".", "1", ".", "0" >>]
       IN  [f \in DOMAIN license_data \cup { "signature" } |->
              IF f = "signature" THEN _generate_license_signature(license_data)
              ELSE license_data[f]]

Valid == << TRUE, "Licenza valida" >>
NotFound == << FALSE, "Nessuna licenza trovata" >>
Tampered == << FALSE, "Licenza non valida o manomessa" >>
DeviceMismatch == << FALSE, "Licenza non valida per questa macchina" >>
Expired(expiry) == << FALSE, "Licenza scaduta il", StrftimeDMY(expiry) >>
BadExpiry == << FALSE, "Data di scadenza non valida" >>
UnrecognizedType == << FALSE, "Tipo di licenza non riconosciuto" >>
ValidationError(e) == << FALSE, "Errore nella validazione", e >>

\* the license file with a text that json.dump did not write for a dict
LicenseText(text) == << [text |-> text] >>
IsLicenseText(file) == file # NoDict /\ DOMAIN file[1] = { "text" }

\* what load_license returns for what json.load gave or raised: None by
\* the except clause (lines 337-339), None for null, the empty dict for an
\* object without members
LoadedOrNone(loaded) ==
  IF "raised" \in DOMAIN loaded THEN NoDict
  ELSE IF loaded.value[1] = "NoneType" THEN NoDict
  ELSE IF loaded.value = << "dict", << >> >> THEN Some(EmptyDict)
  ELSE Some(loaded.value)

\* load_license that lets the exception of json.load through
load_license_text_Unguarded(text) ==
  IF "raised" \in DOMAIN JsonLoads(text) THEN Some(JsonLoads(text)) ELSE NoDict

\* lines 329-339 of load_license on such a text
load_license_text(text) == LoadedOrNone(JsonLoads(text))

\* load_license(): the dict in the file, None when there is no file or
\* when reading it raises
load_license(file) ==
  IF IsLicenseText(file) THEN load_license_text(file[1].text) ELSE file

\* the checks of validate_license after the missing-record check, in the
\* order given: "signature", "machine_id", "expiry", "license_type"; on the
\* deadline the license is expired when strict is FALSE
ChecksInOrder(license_data, mid, now, order, strict) ==
  LET expiry_date == Get(license_data, "expiry_date")
      expiry == FromIsoFormat(expiry_date)
      unlimited == expiry_date = << "u", "n", "l", "i", "m", "i", "t", "e", "d" >>
      Outcome(check) ==
        IF check = "signature"
        THEN (IF ~_verify_license_signature(license_data) THEN Tampered ELSE Valid)
        ELSE IF check = "machine_id"
        THEN (IF Get(license_data, "machine_id") # mid THEN DeviceMismatch ELSE Valid)
        ELSE IF check = "expiry"
        THEN (IF unlimited THEN Valid
              ELSE IF expiry[1] = "ValueError" THEN BadExpiry
              ELSE IF expiry[1] \in { "TypeError", "aware" } THEN ValidationError(TypeError)
              ELSE IF Later(now, expiry[2]) \/ (~strict /\ now = expiry[2])
                   THEN Expired(expiry[2])
              ELSE Valid)
        ELSE (IF Get(license_data, "license_type") \notin DOMAIN LICENSE_TYPES
              THEN UnrecognizedType ELSE Valid)
  IN  IF Outcome(order[1]) # Valid THEN Outcome(order[1])
      ELSE IF Outcome(order[2]) # Valid THEN Outcome(order[2])
      ELSE IF Outcome(order[3]) # Valid THEN Outcome(order[3])
      ELSE Outcome(order[4])

\* validate_license with the expiry checked before the machine
validate_license_ExpiryFirst(given, file, mid, now) ==
  LET loaded == IF given = NoDict THEN load_license(file) ELSE given
  IN  IF loaded = NoDict \/ DOMAIN loaded[1] = {} THEN NotFound
        ELSE ChecksInOrder(loaded[1], mid, now,
                         << "signature", "expiry", "machine_id", "license_type" >>, TRUE)

\* validate_license with the machine checked before the signature
validate_license_MachineFirst(given, file, mid, now) ==
  LET loaded == IF given = NoDict THEN load_license(file) ELSE given
  IN  IF loaded = NoDict \/ DOMAIN loaded[1] = {} THEN NotFound
        ELSE ChecksInOrder(loaded[1], mid, now,
                         << "machine_id", "signature", "expiry", "license_type" >>, TRUE)

\* validate_license with the license expired on its deadline already
validate_license_ExpiredOnDeadline(given, file, mid, now) ==
  LET loaded == IF given = NoDict THEN load_license(file) ELSE given
  IN  IF loaded = NoDict \/ DOMAIN loaded[1] = {} THEN NotFound
        ELSE ChecksInOrder(loaded[1], mid, now,
                         << "signature", "machine_id", "expiry", "license_type" >>, FALSE)

\* validate_license(license_data) on machine mid at time now; license_data is
\* None (the record is loaded from the file) or a dict
validate_license(given, file, mid, now) ==
  LET loaded == IF given = NoDict THEN load_license(file) ELSE given
  IN  IF loaded = NoDict \/ DOMAIN loaded[1] = {} THEN NotFound
      ELSE LET license_data == loaded[1]
               expiry_date == Get(license_data, "expiry_date")
               expiry == FromIsoFormat(expiry_date)
               unlimited == expiry_date = << "u", "n", "l", "i", "m", "i", "t", "e", "d" >>
           IN  IF ~_verify_license_signature(license_data) THEN Tampered
               ELSE IF Get(license_data, "machine_id") # mid THEN DeviceMismatch
               ELSE IF ~unlimited /\ expiry[1] = "ValueError" THEN BadExpiry
               ELSE IF ~unlimited /\ expiry[1] = "TypeError"
                    THEN ValidationError(TypeError)
               ELSE IF ~unlimited /\ expiry[1] = "aware"
                    THEN ValidationError(TypeError)
               ELSE IF ~unlimited /\ Later(now, expiry[2]) THEN Expired(expiry[2])
               ELSE IF Get(license_data, "license_type") \notin DOMAIN LICENSE_TYPES
                    THEN UnrecognizedType
               ELSE Valid

(***************************************************************************)
(* Key operations as steps.  held_key is the key text at hand, key_source  *)
(* tells how it came about, call/ret are the last operation and its result.*)
(***************************************************************************)
InitKey ==
  /\ call = [op |-> "none"]
  /\ ret = None
  /\ held_key = None
  /\ key_source = [by |-> "none"]
  /\ clock = StartClock
  /\ machine_id = HexMachine
  /\ license_file = NoDict
  /\ file_source = [by |-> "none"]
  /\ held_license = NoDict
  /\ license_source = [by |-> "none"]
  /\ token = NoDict
  /\ receipt_file = << >>
  /\ machine_id_file = << HexMachine >>
  /\ descriptors = Workstation
  /\ callers = NoCallers
  /\ startup = NotStarted

NotKeyVars == << clock, machine_id, license_file, file_source, held_license,
                 license_source, token, receipt_file, machine_id_file, descriptors, callers, startup >>

\* LicenseKeyGenerator.generate_license_key(license_type, customer_code=...)
GenerateLicenseKey(license_type, customer_code, now, seg4, seg5) ==
  /\ call' = [op |-> "generate_license_key", license_type |-> license_type,
              customer_code |-> customer_code]
  /\ ret' = generate_license_key(license_type, customer_code, now, seg4, seg5)
  /\ IF ret' = ValueError
     THEN UNCHANGED << held_key, key_source >>
     ELSE /\ held_key' = ret'
          /\ key_source' = [by |-> "generate_license_key",
                            license_type |-> license_type,
                            customer_code |-> customer_code]
  /\ UNCHANGED NotKeyVars

\* a user types a key
EnterKey(k) ==
  /\ call' = [op |-> "enter"]
  /\ ret' = None
  /\ held_key' = k
  /\ key_source' = [by |-> "typed"]
  /\ UNCHANGED NotKeyVars

\* one character of a generated key is overwritten by a different one
ReplaceChar(pos, ch) ==
  /\ key_source.by = "generate_license_key"
  /\ pos \in 1..Len(held_key)
  /\ held_key[pos] # ch
  /\ call' = [op |-> "replace"]
  /\ ret' = None
  /\ held_key' = [held_key EXCEPT ![pos] = ch]
  /\ key_source' = [by |-> "replace", pos |-> pos, original |-> held_key]
  /\ UNCHANGED NotKeyVars

\* LicenseKeyGenerator.validate_generated_key(held_key)
ValidateGeneratedKey ==
  /\ call' = [op |-> "validate_generated_key"]
  /\ ret' = validate_generated_key(held_key)
  /\ UNCHANGED << held_key, key_source >>
  /\ UNCHANGED NotKeyVars

\* LicenseManager._verify_generated_key_checksum(held_key)
VerifyGeneratedKeyChecksum ==
  /\ call' = [op |-> "_verify_generated_key_checksum"]
  /\ ret' = _verify_generated_key_checksum(held_key)
  /\ UNCHANGED << held_key, key_source >>
  /\ UNCHANGED NotKeyVars

\* LicenseKeyGenerator.get_license_type_from_key(held_key)
GetLicenseTypeFromKey ==
  /\ call' = [op |-> "get_license_type_from_key"]
  /\ ret' = get_license_type_from_key(held_key)
  /\ UNCHANGED << held_key, key_source >>
  /\ UNCHANGED NotKeyVars

\* LicenseManager._determine_license_type(held_key), for a str
DetermineLicenseType ==
  /\ IsStr(held_key)
  /\ call' = [op |-> "_determine_license_type"]
  /\ ret' = _determine_license_type(held_key)
  /\ UNCHANGED << held_key, key_source >>
  /\ UNCHANGED NotKeyVars

\* the generator and the manager's type inference
NextKey ==
  \/ \E t \in GenTypes, c \in CustomerCodes, now \in GenClocks,
        s4 \in generate_secure_segment(4, SegmentPool),
        s5 \in generate_secure_segment(5, SegmentPool) :
       GenerateLicenseKey(t, c, now, s4, s5)
  \/ \E k \in TypedKeys : EnterKey(k)
  \/ ValidateGeneratedKey
  \/ GetLicenseTypeFromKey
  \/ DetermineLicenseType

SpecKey == InitKey /\ [][NextKey]_vars

\* the inputs of the generator when its keys are edited afterwards
EditTypes == { STANDARD }
EditCustomers == { << "A", "C", "M", "E" >> }
EditSegments == { << "A", "A", "3", "B", "C" >> }

\* checksum sensitivity: generated keys, single-character edits, malformed keys
NextKeyEdit ==
  \/ \E t \in EditTypes, c \in EditCustomers, now \in GenClocks, s5 \in EditSegments :
       GenerateLicenseKey(t, c, now, s5, s5)
  \/ \E pos \in 1..Len(held_key), ch \in EditChars : ReplaceChar(pos, ch)
  \/ \E k \in MalformedKeys : EnterKey(k)
  \/ ValidateGeneratedKey
  \/ VerifyGeneratedKeyChecksum

SpecKeyEdit == InitKey /\ [][NextKeyEdit]_vars

(***************************************************************************)
(* Properties of the key operations                                        *)
(***************************************************************************)
KeyChecks == { "validate_generated_key", "_verify_generated_key_checksum" }
TypeInferences == { "_determine_license_type", "get_license_type_from_key" }

\* the held key is the unedited output of generate_license_key for a customer
\* code of at most four characters, or for none
FreshGeneratedKey ==
  /\ key_source.by = "generate_license_key"
  /\ \/ key_source.customer_code = None
     \/ Len(key_source.customer_code) <= 4

\* C6: for every license type T of LICENSE_PREFIXES and every customer code of
\* at most 4 characters (or none), the key generate_license_key returns passes
\* validate_generated_key, and _determine_license_type and
\* get_license_type_from_key both return T.
C6_GeneratedKeyRoundTrip ==
  FreshGeneratedKey =>
    /\ call.op = "validate_generated_key" => ret = TRUE
    /\ call.op \in TypeInferences => ret = key_source.license_type

\* the segment (1..5) a position of a 25-character generated key lies in;
\* 0 for a dash
SegmentOf(pos) ==
  IF pos \in 1..4 THEN 1
  ELSE IF pos \in 6..9 THEN 2
  ELSE IF pos \in 11..14 THEN 3
  ELSE IF pos \in 16..20 THEN 4
  ELSE IF pos \in 22..25 THEN 5
  ELSE 0

\* the held key is a generated key (with an alphanumeric customer segment)
\* one character of which was replaced
EditedIn(segments) ==
  /\ key_source.by = "replace"
  /\ generated_pattern(key_source.original)
  /\ SegmentOf(key_source.pos) \in segments

\* C7 as stated: an edit of the checksum segment, an edit of one of the first
\* four segments, and a key that has not exactly five parts are all rejected
\* by validate_generated_key and _verify_generated_key_checksum.
C7_EveryEditRejected ==
  call.op \in KeyChecks =>
    /\ EditedIn({ 5 }) => ret = FALSE
    /\ EditedIn(1..4) => ret = FALSE
    /\ (~IsStr(held_key) \/ Len(Split(held_key, "-")) # 5) => ret = FALSE

\* C7: an edit of the checksum segment is rejected; a key that has
\* not exactly five parts is rejected, without an exception; an edit of one of
\* the first four segments is rejected unless the edited parts have the same
\* four-digit checksum as the original ones.
C7_ChecksumSensitivity ==
  call.op \in KeyChecks =>
    /\ ret \in BOOLEAN
    /\ EditedIn({ 5 }) => ret = FALSE
    /\ (~IsStr(held_key) \/ Len(Split(held_key, "-")) # 5) => ret = FALSE
    /\ (EditedIn(1..4) /\ ret = TRUE) =>
         /\ Len(Split(held_key, "-")) = 5
         /\ Sha256HexPrefix4(Join(SubSeq(Split(held_key, "-"), 1, 4), << >>))
              = Sha256HexPrefix4(Join(SubSeq(Split(key_source.original, "-"), 1, 4), << >>))

\* an edit of the random segment that the checksum does not notice
C7_CollisionAccepted ==
  /\ call.op = "validate_generated_key"
  /\ EditedIn({ 4 })
  /\ ret = TRUE

\* the types the four stages of _determine_license_type give for the held key
StageTypes ==
  << PredefinedType(held_key), AnalyzedType(held_key),
     PatternType(held_key), HeuristicType(held_key) >>

\* C9: _determine_license_type returns the type of the first stage that
\* matches, in the order predefined table, structured decode with a valid
\* checksum, test keys and VTOOL pattern, substring heuristics; None only when
\* no stage matches.
C9_FirstMatchingStage ==
  call.op = "_determine_license_type" =>
    /\ \A i \in 1..4 :
         (StageTypes[i] # None /\ \A j \in 1..(i - 1) : StageTypes[j] = None)
           => ret = StageTypes[i]
    /\ ret = None <=> \A i \in 1..4 : StageTypes[i] = None

\* an earlier stage has overruled a later one that reads another type
C9_EarlierStageWins ==
  /\ call.op = "_determine_license_type"
  /\ \E i \in 1..3 : \E j \in (i + 1)..4 :
       /\ \A k \in 1..(i - 1) : StageTypes[k] = None
       /\ StageTypes[i] # None
       /\ StageTypes[j] # None
       /\ StageTypes[j] # StageTypes[i]
       /\ ret = StageTypes[i]

(***************************************************************************)
(* Inputs of the record operations                                         *)
(***************************************************************************)
\* how many microseconds the clock moves
MaxTicks == 1

\* the microseconds that pass between two readings of the clock in one call
MaxElapsed == 1

\* duration_days: None or an int
Overrides == { NoDuration, << -1 >>, << 0 >>, << 1 >>, << 400 >> }

\* keys of the generator, as generate_license_key makes them
KeyOf(t, c) ==
  generate_license_key(t, c, << 2026, 11 >>, << "K", "7", "Q", "Z" >>, << "A", "A", "3", "B", "C" >>)

ACME == << "A", "C", "M", "E" >>
LegacyKey == << "V", "T", "O", "O", "L", "-", "A", "1", "B", "2", "C", "-", "D", "3", "E", "4", "F", "-", "G", "5", "H", "6", "J" >>

\* keys handed to generate_license: a predefined key, generated keys, an older
\* generated key, a generated key with a wrong checksum, a legacy key
IssueKeys ==
  { << "t", "r", "i", "a", "l", "-", "2", "0", "2", "4", "-", "v", "e", "r", "i", "f", "i", "c", "a" >>,
    KeyOf(TRIAL, ACME), KeyOf(ENTERPRISE, ACME),
    << "V", "E", "2", "4", "-", "2", "6", "1", "1", "-", "A", "C", "M", "E", "-", "A", "A", "3", "B", "C", "-", "8", "3", "5", "4" >>,
    << "V", "S", "2", "4", "-", "2", "6", "1", "1", "-", "P", "R", "O", "X", "-", "A", "A", "3", "B", "C", "-", "0", "0", "0", "0" >>,
    LegacyKey }

\* the calls of generate_license: every key with every type and duration, and
\* one call with a type that does not exist
IssueCalls ==
  { << k, t, d >> : k \in IssueKeys, t \in DOMAIN LICENSE_TYPES, d \in Overrides }
    \cup { << LegacyKey, << "D", "E", "M", "O" >>, NoDuration >> }

\* keys typed into activate_license
ActivationKeys ==
  { << "T", "R", "I", "A", "L", "-", "2", "0", "2", "4", "-", "V", "E", "R", "I", "F", "I", "C", "A" >>,
    KeyOf(ENTERPRISE, ACME),
    LegacyKey,
    << "H", "E", "L", "L", "O", "-", "W", "O", "R", "L", "D" >> }

\* the random part of a Fernet token
Ivs == { "iv1" }

(***************************************************************************)
(* Record operations as steps                                              *)
(***************************************************************************)
\* a manager constructed on machine mid, no license file yet
InitOn(mid) ==
  /\ call = [op |-> "none"]
  /\ ret = None
  /\ held_key = None
  /\ key_source = [by |-> "none"]
  /\ clock = StartClock
  /\ machine_id = mid
  /\ license_file = NoDict
  /\ file_source = [by |-> "none"]
  /\ held_license = NoDict
  /\ license_source = [by |-> "none"]
  /\ token = NoDict
  /\ receipt_file = << >>
  /\ machine_id_file = << mid >>
  /\ descriptors = Workstation
  /\ callers = NoCallers
  /\ startup = NotStarted

InitLicense == InitOn(HexMachine)

\* the clock after n more microseconds
After(now, n) == << now[1], now[2], now[3] + n >>

\* time passes
Tick ==
  /\ clock[3] < MaxTicks
  /\ clock' = After(clock, 1)
  /\ call' = [op |-> "tick"]
  /\ ret' = None
  /\ UNCHANGED << held_key, key_source, machine_id, license_file, file_source,
                  held_license, license_source, token, receipt_file, machine_id_file, descriptors, callers, startup >>

\* LicenseManager.generate_license(license_key, license_type, duration_days):
\* the caller keeps the dict returned; elapsed microseconds pass between the
\* two readings of the clock
GenerateLicense(license_key, license_type, duration_days, elapsed, iv) ==
  /\ clock[3] + elapsed <= MaxTicks
  /\ clock' = After(clock, elapsed)
  /\ call' = [op |-> "generate_license", license_key |-> license_key,
              license_type |-> license_type, duration_days |-> duration_days]
  /\ ret' = generate_license(license_key, license_type, duration_days,
                             machine_id, clock, clock', iv)
  /\ IF license_type \in DOMAIN LICENSE_TYPES
     THEN /\ held_license' = Some(ret')
          /\ license_source' = [by |-> "generate_license", at |-> clock']
     ELSE UNCHANGED << held_license, license_source >>
  /\ UNCHANGED << held_key, key_source, machine_id, license_file, file_source, token, receipt_file, machine_id_file, descriptors, callers, startup >>

\* what activate_license returns; saved tells whether save_license could
\* write the file
activate_license(license_key, saved) ==
  LET license_type == _determine_license_type(license_key)
  IN  IF ~_validate_license_key_format(license_key)
      THEN << FALSE, "Formato chiave di licenza non valido" >>
      ELSE IF license_type = None
           THEN << FALSE, "Chiave di licenza non riconosciuta" >>
           ELSE IF saved
                THEN << TRUE, "Licenza attivata con successo", license_type >>
                ELSE << FALSE, "Errore nel salvataggio della licenza" >>

\* ActivateLicense that merges the new record into the one in the file
ActivateLicense_Merging(license_key, elapsed, iv, saved) ==
  LET license_type == _determine_license_type(license_key)
      generates == _validate_license_key_format(license_key) /\ license_type # None
      record == generate_license(license_key, license_type, NoDuration,
                                 machine_id, clock, clock', iv)
  IN  /\ clock[3] + elapsed <= MaxTicks
      /\ call' = [op |-> "activate_license", license_key |-> license_key, saved |-> saved]
      /\ ret' = activate_license(license_key, saved)
      /\ clock' = IF generates THEN After(clock, elapsed) ELSE clock
      /\ IF generates /\ saved
         THEN /\ license_file' =
                   IF license_file = NoDict THEN Some(record)
                   ELSE Some([record EXCEPT !.issued_date = license_file[1].issued_date,
                                            !.features = license_file[1].features])
              /\ file_source' = [by |-> "activate_license", at |-> clock']
         ELSE UNCHANGED << license_file, file_source >>
      /\ UNCHANGED << held_key, key_source, machine_id, held_license,
                      license_source, token, receipt_file, machine_id_file, descriptors, callers, startup >>

\* ActivateLicense that removes the license file when it refuses the key
ActivateLicense_Clearing(license_key, elapsed, iv, saved) ==
  LET license_type == _determine_license_type(license_key)
      generates == _validate_license_key_format(license_key) /\ license_type # None
  IN  /\ clock[3] + elapsed <= MaxTicks
      /\ call' = [op |-> "activate_license", license_key |-> license_key, saved |-> saved]
      /\ ret' = activate_license(license_key, saved)
      /\ clock' = IF generates THEN After(clock, elapsed) ELSE clock
      /\ IF generates /\ saved
         THEN /\ license_file' =
                   Some(generate_license(license_key, license_type, NoDuration,
                                         machine_id, clock, clock', iv))
              /\ file_source' = [by |-> "activate_license", at |-> clock']
         ELSE IF ~generates
              THEN license_file' = NoDict /\ file_source' = [by |-> "none"]
              ELSE UNCHANGED << license_file, file_source >>
      /\ UNCHANGED << held_key, key_source, machine_id, held_license,
                      license_source, token, receipt_file, machine_id_file, descriptors, callers, startup >>

\* LicenseManager.activate_license(license_key): the record is generated and
\* written to the license file
ActivateLicense(license_key, elapsed, iv, saved) ==
  LET license_type == _determine_license_type(license_key)
      generates == _validate_license_key_format(license_key) /\ license_type # None
  IN  /\ clock[3] + elapsed <= MaxTicks
      /\ call' = [op |-> "activate_license", license_key |-> license_key, saved |-> saved]
      /\ ret' = activate_license(license_key, saved)
      /\ clock' = IF generates THEN After(clock, elapsed) ELSE clock
      /\ IF generates /\ saved
         THEN /\ license_file' =
                   Some(generate_license(license_key, license_type, NoDuration,
                                         machine_id, clock, clock', iv))
              /\ file_source' = [by |-> "activate_license", at |-> clock']
         ELSE UNCHANGED << license_file, file_source >>
      /\ UNCHANGED << held_key, key_source, machine_id, held_license,
                      license_source, token, receipt_file, machine_id_file, descriptors, callers, startup >>

\* LicenseManager.validate_license(held_license)
ValidateHeld ==
  /\ held_license # NoDict
  /\ call' = [op |-> "validate_license", given |-> "held"]
  /\ ret' = validate_license(held_license, license_file, machine_id, clock)
  /\ UNCHANGED << held_key, key_source, clock, machine_id, license_file, file_source,
                  held_license, license_source, token, receipt_file, machine_id_file, descriptors, callers, startup >>

\* LicenseManager.validate_license(): the record comes from the file
ValidateStored ==
  /\ call' = [op |-> "validate_license", given |-> "file"]
  /\ ret' = validate_license(NoDict, license_file, machine_id, clock)
  /\ UNCHANGED << held_key, key_source, clock, machine_id, license_file, file_source,
                  held_license, license_source, token, receipt_file, machine_id_file, descriptors, callers, startup >>

\* issuing: every way generate_license settles the duration
NextIssue ==
  \/ \E c \in IssueCalls, e \in 0..MaxElapsed, iv \in Ivs :
       GenerateLicense(c[1], c[2], c[3], e, iv)
  \/ Tick

SpecIssue == InitLicense /\ [][NextIssue]_vars

\* the keys and durations of the licenses issued and validated at once
FreshCalls ==
  { << k, t, d >> : k \in { << "t", "r", "i", "a", "l", "-", "2", "0", "2", "4", "-", "v", "e", "r", "i", "f", "i", "c", "a" >>, LegacyKey },
                    t \in { TRIAL, ENTERPRISE },
                    d \in { NoDuration, << -1 >>, << 0 >>, << 1 >> } }

\* issuing or activating, then validating
NextLicense ==
  \/ \E c \in FreshCalls, e \in 0..MaxElapsed, iv \in Ivs :
       GenerateLicense(c[1], c[2], c[3], e, iv)
  \/ \E k \in ActivationKeys, e \in 0..MaxElapsed, iv \in Ivs, saved \in BOOLEAN :
       ActivateLicense(k, e, iv, saved)
  \/ ValidateHeld
  \/ ValidateStored
  \/ Tick

SpecLicense == InitLicense /\ [][NextLicense]_vars

(***************************************************************************)
(* Records from elsewhere and edited records                               *)
(***************************************************************************)
UNLIMITED == << "u", "n", "l", "i", "m", "i", "t", "e", "d" >>
DEMO == << "D", "E", "M", "O" >>

\* how many edits a record undergoes
MaxEdits == 1

\* expiry_date values of records signed elsewhere: the sentinel, the start of
\* the model's clock, one second before it, a timestamp with a UTC offset,
\* and a text that is no timestamp
ExpiryTexts ==
  { UNLIMITED,
    IsoFormat(StartClock),
    IsoFormat(<< StartDay, StartSecond - 1, 0 >>),
    << "2", "0", "2", "0", "-", "0", "1", "-", "0", "1", "T", "0", "0", ":", "0", "0", ":", "0", "0", "+", "0", "0", ":", "0", "0" >>,
    << "s", "o", "o", "n" >> }

\* a dict with the five signed fields, signed with SECRET_KEY
Signed(license_key, mid, license_type, issued_date, expiry_date) ==
  LET license_data ==
        [license_key |-> license_key, machine_id |-> mid,
         license_type |-> license_type, issued_date |-> issued_date,
         expiry_date |-> expiry_date]
  IN  [f \in DOMAIN license_data \cup { "signature" } |->
         IF f = "signature" THEN _generate_license_signature(license_data)
         ELSE license_data[f]]

\* a record issued and signed by another installation (it holds the same
\* SECRET_KEY) comes into the caller's hands
SignElsewhere(mid, license_type, expiry_date, iv) ==
  /\ held_license' =
       Some(Signed(_encrypt_license_key(LegacyKey, mid, iv), mid, license_type,
                   IsoFormat(AddDays(StartClock, -1)), expiry_date))
  /\ license_source' = [by |-> "signed elsewhere"]
  /\ call' = [op |-> "receive"]
  /\ ret' = None
  /\ UNCHANGED << held_key, key_source, clock, machine_id, license_file,
                  file_source, token, receipt_file, machine_id_file, descriptors, callers, startup >>

AllDecimal(s) == Len(s) > 0 /\ s[1] # "0" /\ AllIn(s, 1, Len(s), IsDigit)

\* the values an edit writes into a field of a dict
EditValues(field) ==
  IF field = "license_key" THEN { << "Z", "0", "F", "B", "Q", "U", "F", "B" >> }
  ELSE IF field = "machine_id"
       THEN { OtherMachine } \cup { PyInt(m) : m \in { x \in Machines : AllDecimal(x) } }
  ELSE IF field = "license_type" THEN { TRIAL, ENTERPRISE, DEMO }
  ELSE IF field = "issued_date" THEN { IsoFormat(AddDays(StartClock, -1)) }
  ELSE IF field = "expiry_date" THEN { UNLIMITED, IsoFormat(AddDays(StartClock, 3650)) }
  ELSE { << >>, << "0", "0", "f", "f" >>, PyInt(<< "7" >>) }

EditableFields ==
  { SignedFields[i] : i \in 1..5 } \cup { "signature" }

\* the record before any edit, and who made it
Original ==
  IF license_source.by = "edit" THEN license_source.original ELSE held_license[1]

MadeBy == IF license_source.by = "edit" THEN license_source.of ELSE license_source.by

EditCount == IF license_source.by = "edit" THEN license_source.edits ELSE 0

Editable == license_source.by \in { "generate_license", "signed elsewhere", "edit" }

\* a field of a record is overwritten; the signature is not computed again
EditField(field, v) ==
  /\ Editable
  /\ EditCount < MaxEdits
  /\ field \in DOMAIN held_license[1]
  /\ held_license[1][field] # v
  /\ held_license' = Some([held_license[1] EXCEPT ![field] = v])
  /\ license_source' = [by |-> "edit", of |-> MadeBy, original |-> Original,
                         edits |-> EditCount + 1]
  /\ call' = [op |-> "edit"]
  /\ ret' = None
  /\ UNCHANGED << held_key, key_source, clock, machine_id, license_file,
                  file_source, token, receipt_file, machine_id_file, descriptors, callers, startup >>

\* a field of such a record is removed
RemoveField(field) ==
  /\ Editable
  /\ EditCount < MaxEdits
  /\ field \in DOMAIN held_license[1]
  /\ held_license' = Some(Without(held_license[1], field))
  /\ license_source' = [by |-> "edit", of |-> MadeBy, original |-> Original,
                         edits |-> EditCount + 1]
  /\ call' = [op |-> "edit"]
  /\ ret' = None
  /\ UNCHANGED << held_key, key_source, clock, machine_id, license_file,
                  file_source, token, receipt_file, machine_id_file, descriptors, callers, startup >>

InitRecord == \E mid \in Machines : InitOn(mid)

\* records generated here, signed elsewhere or edited, and their validation
NextRecord ==
  \/ \E t \in { TRIAL, ENTERPRISE }, e \in 0..MaxElapsed, iv \in Ivs :
       GenerateLicense(LegacyKey, t, NoDuration, e, iv)
  \/ \E mid \in { machine_id, OtherMachine }, t \in { TRIAL, DEMO },
        x \in ExpiryTexts, iv \in Ivs :
       SignElsewhere(mid, t, x, iv)
  \/ \E f \in EditableFields : \E v \in EditValues(f) : EditField(f, v)
  \/ \E f \in EditableFields : RemoveField(f)
  \/ ValidateHeld
  \/ ValidateStored
  \/ Tick

SpecRecord == InitRecord /\ [][NextRecord]_vars

(***************************************************************************)
(* Properties of the license records                                       *)
(***************************************************************************)
\* validate_license has just been called with the record the caller holds
ValidatedHeld == call.op = "validate_license" /\ call.given = "held"

\* the record held was made by generate_license and nothing has happened
\* since: same machine, same clock reading
FreshlyGenerated ==
  license_source.by = "generate_license" /\ license_source.at = clock

\* the record in the file was written by activate_license just now
FreshlyActivated ==
  file_source.by = "activate_license" /\ file_source.at = clock

\* C1: a record produced by generate_license (also through activate_license),
\* validated at once on the same machine, is valid
C1_FreshLicenseValid ==
  /\ (ValidatedHeld /\ FreshlyGenerated) => ret = Valid
  /\ (call.op = "validate_license" /\ call.given = "file" /\ FreshlyActivated)
       => ret = Valid

\* a one-day record and an activated record, each validated at once
C1_FreshLimitedValidated ==
  /\ ValidatedHeld
  /\ FreshlyGenerated
  /\ held_license[1].expiry_date # UNLIMITED
  /\ license_file # NoDict
  /\ ret = Valid

\* a signed field or the signature of the record differs from the original
SignedPartChanged ==
  \E f \in EditableFields :
    f \notin DOMAIN held_license[1] \/ held_license[1][f] # Original[f]

\* validate_license has been called with an edited record of generate_license
ValidatedEdited ==
  /\ ValidatedHeld
  /\ license_source.by = "edit"
  /\ license_source.of = "generate_license"
  /\ SignedPartChanged

\* the edited record has every signed field and formats to the signed text of
\* the original, under the original signature
SameSignedText ==
  /\ EditableFields \subseteq DOMAIN held_license[1]
  /\ SignString(held_license[1]) = SignString(Original)
  /\ held_license[1].signature = Original.signature

\* C2 as stated: any change of a signed field or of the signature makes
\* validate_license answer "Licenza non valida o manomessa"
C2_EveryEditTampered == ValidatedEdited => ret = Tampered

\* C2: an edited record is never valid; the answer is "manomessa" unless the
\* edit left the formatted signed text as it was (a machine_id of decimal
\* digits rewritten as a number), and then the machine check refuses it
C2_EditNeverValid ==
  ValidatedEdited =>
    /\ ret[1] = FALSE
    /\ ~SameSignedText => ret = Tampered
    /\ SameSignedText => ret = DeviceMismatch

\* the machine_id rewritten as a number passes the signature check
C2_NumberForMachineId ==
  /\ ValidatedEdited
  /\ SameSignedText
  /\ IsInt(held_license[1].machine_id)
  /\ ret = DeviceMismatch

\* C3: a record with a correct signature whose machine_id is not this
\* machine's is refused with "Licenza non valida per questa macchina"
C3_ForeignMachineRejected ==
  (/\ ValidatedHeld
   /\ _verify_license_signature(held_license[1])
   /\ Get(held_license[1], "machine_id") # machine_id)
    => ret = DeviceMismatch

\* a record of another machine, expired and of an unknown type
C3_ForeignExpiredRecord ==
  /\ ValidatedHeld
  /\ license_source.by = "signed elsewhere"
  /\ _verify_license_signature(held_license[1])
  /\ held_license[1].machine_id = OtherMachine
  /\ machine_id # OtherMachine
  /\ held_license[1].license_type = DEMO
  /\ held_license[1].expiry_date = IsoFormat(<< StartDay, StartSecond - 1, 0 >>)
  /\ ret = DeviceMismatch

\* the record validated has passed the signature check, the machine check
\* and has a known type
PassesAllButExpiry ==
  /\ ValidatedHeld
  /\ _verify_license_signature(held_license[1])
  /\ Get(held_license[1], "machine_id") = machine_id
  /\ Get(held_license[1], "license_type") \in DOMAIN LICENSE_TYPES

\* what the expiry of a record requires of validate_license, for the
\* timestamps in kinds
ExpiryRule(kinds) ==
  LET expiry_date == Get(held_license[1], "expiry_date")
      expiry == FromIsoFormat(expiry_date)
  IN  /\ expiry_date = UNLIMITED => ret = Valid
      /\ (expiry_date # UNLIMITED /\ expiry[1] \in kinds) =>
           IF Later(clock, expiry[2]) THEN ret = Expired(expiry[2])
           ELSE ret = Valid

C5_FirstFailingCheck ==
  /\ (call.op = "validate_license" /\ call.given = "file" /\ license_file = NoDict)
       => ret = NotFound
  /\ ValidatedHeld =>
       LET license_data == held_license[1]
           signed == _verify_license_signature(license_data)
           here == Get(license_data, "machine_id") = machine_id
           expiry_date == Get(license_data, "expiry_date")
           expiry == FromIsoFormat(expiry_date)
           in_time == \/ expiry_date = UNLIMITED
                      \/ expiry[1] = "naive" /\ ~Later(clock, expiry[2])
           known == Get(license_data, "license_type") \in DOMAIN LICENSE_TYPES
       IN  /\ ~signed => ret = Tampered
           /\ (signed /\ ~here) => ret = DeviceMismatch
           /\ (signed /\ here /\ ~in_time) =>
                /\ ret[1] = FALSE
                /\ ret[2] \in { "Licenza scaduta il", "Data di scadenza non valida",
                                "Errore nella validazione" }
           /\ (signed /\ here /\ in_time /\ ~known) => ret = UnrecognizedType
           /\ (signed /\ here /\ in_time /\ known) => ret = Valid

\* a record that fails all four checks is answered by the signature check
C5_AllChecksFail ==
  /\ ValidatedHeld
  /\ ~_verify_license_signature(held_license[1])
  /\ Get(held_license[1], "machine_id") # machine_id
  /\ Get(held_license[1], "expiry_date") = IsoFormat(<< StartDay, StartSecond - 1, 0 >>)
  /\ Get(held_license[1], "license_type") = DEMO
  /\ ret = Tampered

\* generate_license has returned a record
Generated ==
  call.op = "generate_license" /\ call.license_type \in DOMAIN LICENSE_TYPES

\* C8 as stated: issued_date is the clock's reading and expiry_date is that
\* reading plus the settled duration, "unlimited" for a duration <= 0
C8_ExpiryFromIssuedDate ==
  Generated =>
    LET days == EffectiveDuration(call.license_key, call.license_type, call.duration_days)
        issued == FromIsoFormat(ret.issued_date)[2]
    IN  ret.expiry_date =
          IF days > 0 THEN IsoFormat(AddDays(issued, days)) ELSE UNLIMITED

\* the record's expiry_date is the second reading of the clock plus the
\* settled duration; issued_date is the first reading
C8_ExpiryFromSecondReading ==
  Generated =>
    LET days == EffectiveDuration(call.license_key, call.license_type, call.duration_days)
    IN  /\ ret.expiry_date =
             IF days > 0 THEN IsoFormat(AddDays(clock, days)) ELSE UNLIMITED
        /\ Later(clock, FromIsoFormat(ret.issued_date)[2])
             \/ clock = FromIsoFormat(ret.issued_date)[2]

\* the clock moved between the two readings of one call
C8_ClockMovedWithinCall ==
  /\ Generated
  /\ ret.expiry_date # UNLIMITED
  /\ Later(clock, FromIsoFormat(ret.issued_date)[2])
(***************************************************************************)
(* Receipts (sdk-python/alure_sdk/receipt.py).  A receipt is held by its    *)
(* parts: the version, how many dot-separated segments the token has, the   *)
(* JSON object of its payload segment and who signed that segment.          *)
(***************************************************************************)
\* hashlib.sha256(s.encode("utf-8")).hexdigest()
Sha256Hex(s) ==
  LET h == Sha256(Encode(s))
      W(i) == Hex16(h[i][1]) \o Hex16(h[i][2])
  IN  W(1) \o W(2) \o W(3) \o W(4) \o W(5) \o W(6) \o W(7) \o W(8)

DeviceIds == { << "d", "e", "v", "-", "1" >>, << "d", "e", "v", "-", "2" >> }

\* hexdigest() of the SHA-256 digests of the device ids, as Sha256Hex
\* computes them
DeviceDigests ==
  { << << "d", "e", "v", "-", "1" >>, << "0", "3", "8", "8", "f", "b", "6", "2", "6", "c", "a", "8", "9", "a", "1", "2", "7", "8", "4", "7", "4", "4", "3", "9", "8", "9", "3", "3", "4", "b", "8", "c", "2", "9", "e", "1", "7", "5", "6", "7", "b", "c", "0", "3", "a", "7", "a", "2", "e", "d", "1", "3", "e", "f", "f", "c", "a", "7", "0", "1", "a", "4", "a", "1" >> >>,
    << << "d", "e", "v", "-", "2" >>, << "a", "b", "6", "d", "1", "6", "9", "a", "5", "9", "c", "9", "4", "3", "7", "d", "7", "c", "2", "8", "3", "5", "0", "b", "0", "b", "e", "e", "0", "4", "d", "7", "c", "9", "4", "8", "6", "3", "c", "a", "c", "d", "7", "6", "3", "8", "6", "5", "9", "a", "d", "2", "c", "3", "6", "d", "8", "5", "4", "1", "b", "3", "c", "2" >> >> }

\* hashlib.sha256(device_id.encode("utf-8")).hexdigest()
device_hash(device_id) == (CHOOSE p \in DeviceDigests : p[1] = device_id)[2]

\* the holder of the key pair whose public key the verifier is given
SERVICE == "service"

ReceiptError(code) == Raise(<< "ReceiptError", code >>)

ReceiptValidationResult(valid, reason, expires_at, grace_period_days) ==
  [valid |-> valid, reason |-> reason, expires_at |-> expires_at,
   grace_period_days |-> grace_period_days]

GRACE_PERIOD == << "g", "r", "a", "c", "e", "_", "p", "e", "r", "i", "o", "d" >>
EXPIRED == << "e", "x", "p", "i", "r", "e", "d" >>
INVALID_SIGNATURE == << "i", "n", "v", "a", "l", "i", "d", "_", "s", "i", "g", "n", "a", "t", "u", "r", "e" >>
DEVICE_MISMATCH == << "d", "e", "v", "i", "c", "e", "_", "m", "i", "s", "m", "a", "t", "c", "h" >>

\* the decimal digits of a natural number below 10000, without leading zeros
Decimal(n) ==
  IF n < 10 THEN << DigitChar(n) >>
  ELSE IF n < 100 THEN Digit2(n)
  ELSE IF n < 1000 THEN Tail(Digit4(n))
  ELSE Digit4(n)

\* a segment that does not decode: a signature segment that is no base64
\* text, a payload segment that is no base64, no UTF-8 or no JSON
UNDECODABLE == "undecodable"

\* ReceiptVerifier.parse: what json.loads returns (with its Python type),
\* or ReceiptError
parse(tok) ==
  IF tok.segments # 3 \/ tok.version # "v1" THEN ReceiptError("invalid_receipt_format")
  ELSE IF tok.payload_type = UNDECODABLE THEN ReceiptError("invalid_receipt_payload")
  ELSE [payload |-> tok.payload, type |-> tok.payload_type]

\* ReceiptVerifier(public_key_pem).verify_signature(token): the bool it
\* returns, or the exception that leaves it
verify_signature(tok, public_key_pem) ==
  IF public_key_pem = << >> THEN ReceiptError("public_key_required")
  ELSE IF tok.segments # 3 \/ tok.version # "v1" THEN [returned |-> FALSE]
  ELSE IF tok.signer = UNDECODABLE THEN Raise(BinasciiError)
  ELSE [returned |-> tok.signer = public_key_pem[1]]

\* the grace period taken as no days at all
GraceDays_None(payload) == << 0 >>

\* int(payload.get("grace_period_days") or 0): the int in a sequence, the
\* empty sequence when int() raises ValueError
GraceDays(payload) ==
  LET g == Get(payload, "grace_period_days")
  IN  IF g = None \/ g = << >> \/ g = PyInt(<< "0" >>) THEN << 0 >>
      ELSE IF IsInt(g) THEN << Number(Tail(g)) >>
      ELSE IF AllIn(g, 1, Len(g), IsDigit) THEN << Number(g) >>
      ELSE << >>

\* expires_at.replace("Z", "+00:00")
ReplaceZ(s) ==
  LET R[i \in 0..Len(s)] ==
        IF i = 0 THEN << >>
        ELSE R[i - 1] \o (IF s[i] = "Z" THEN << "+", "0", "0", ":", "0", "0" >> ELSE << s[i] >>)
  IN  R[Len(s)]

\* the seconds east of UTC an offset text writes
OffsetSeconds(offset) ==
  IF offset = << "Z" >> THEN 0
  ELSE (IF offset[1] = "-" THEN -1 ELSE 1)
         * (Number(SubSeq(offset, 2, 3)) * 3600 + Number(SubSeq(offset, 5, 6)) * 60)

\* the UTC wall clock of an aware datetime; a naive one is left as it is
Utc(parsed) ==
  IF parsed[1] = "naive" THEN parsed[2]
  ELSE LET s == parsed[2][2] - OffsetSeconds(parsed[3])
       IN  IF s < 0 THEN << parsed[2][1] - 1, s + 86400, parsed[2][3] >>
           ELSE IF s >= 86400 THEN << parsed[2][1] + 1, s - 86400, parsed[2][3] >>
           ELSE << parsed[2][1], s, parsed[2][3] >>

\* datetime.now(timezone.utc) when the clock reads utcnow
NowUtc(utcnow) == << "aware", utcnow, << "+", "0", "0", ":", "0", "0" >> >>

\* validate_offline, lines 72-74: nothing when the check passes or is not
\* asked for, else the outcome in a sequence
SignatureCheck(tok, verify, public_key_pem) ==
  IF ~verify THEN << >>
  ELSE LET verified == verify_signature(tok, public_key_pem)
       IN  IF "raised" \in DOMAIN verified THEN << verified >>
           ELSE IF ~verified.returned
                THEN << ReceiptValidationResult(FALSE, INVALID_SIGNATURE, None, None) >>
           ELSE << >>

\* the device check with the comparison of the hashes left out
DeviceCheck_AnyDevice(parsed, device_id) ==
  IF parsed.type # "dict" THEN << Raise(AttributeError) >> ELSE << >>

\* validate_offline, lines 76-78
DeviceCheck(parsed, device_id) ==
  IF parsed.type # "dict" THEN << Raise(AttributeError) >>
  ELSE IF Get(parsed.payload, "device_id_hash") # device_hash(device_id)
       THEN << ReceiptValidationResult(FALSE, DEVICE_MISMATCH, None, None) >>
  ELSE << >>

\* validate_offline, lines 80-97; now is Optional, utcnow is the clock's
\* reading
ExpiryCheck(payload, now, utcnow) ==
  LET expires_at == Get(payload, "expires_at")
      grace_days == GraceDays(payload)
      now_dt == IF now = << >> THEN NowUtc(utcnow) ELSE now[1]
      exp_dt == FromIsoFormat(ReplaceZ(expires_at))
  IN  IF grace_days = << >> THEN Raise(ValueError)
      ELSE IF expires_at = None \/ expires_at = << >>
           THEN ReceiptValidationResult(TRUE, None, expires_at,
                                        PyInt(Decimal(grace_days[1])))
      ELSE IF exp_dt[1] \notin { "naive", "aware" } THEN Raise(exp_dt)
      ELSE IF exp_dt[1] # now_dt[1] THEN Raise(TypeError)
      ELSE IF Later(Utc(now_dt), Utc(exp_dt))
           THEN IF Later(Utc(now_dt), AddDays(Utc(exp_dt), grace_days[1]))
                THEN ReceiptValidationResult(FALSE, EXPIRED, expires_at, None)
                ELSE ReceiptValidationResult(TRUE, GRACE_PERIOD, expires_at,
                                             PyInt(Decimal(grace_days[1])))
      ELSE ReceiptValidationResult(TRUE, None, expires_at,
                                   PyInt(Decimal(grace_days[1])))

\* validate_offline with the device check made before the signature check
validate_offline_DeviceFirst(tok, device_id, now, verify, public_key_pem, utcnow) ==
  IF "raised" \in DOMAIN parse(tok) THEN parse(tok)
  ELSE IF DeviceCheck(parse(tok), device_id) # << >>
       THEN DeviceCheck(parse(tok), device_id)[1]
  ELSE IF SignatureCheck(tok, verify, public_key_pem) # << >>
       THEN SignatureCheck(tok, verify, public_key_pem)[1]
  ELSE ExpiryCheck(parse(tok).payload, now, utcnow)

\* ReceiptVerifier(public_key_pem).validate_offline(token, device_id, now,
\* verify_signature); public_key_pem and now are Optional (a sequence of
\* length <= 1), utcnow is the clock's reading
validate_offline(tok, device_id, now, verify, public_key_pem, utcnow) ==
  IF "raised" \in DOMAIN parse(tok) THEN parse(tok)
  ELSE IF SignatureCheck(tok, verify, public_key_pem) # << >>
       THEN SignatureCheck(tok, verify, public_key_pem)[1]
  ELSE IF DeviceCheck(parse(tok), device_id) # << >>
       THEN DeviceCheck(parse(tok), device_id)[1]
  ELSE ExpiryCheck(parse(tok).payload, now, utcnow)

(***************************************************************************)
(* Inputs of the receipt operations                                        *)
(***************************************************************************)
\* a timestamp as the activation service writes it
Zulu(dt) == IsoFormat(dt) \o << "Z" >>

\* expires_at of the receipts: none, the empty text, timestamps around the
\* start of the clock in UTC, one written with another offset, one without
\* an offset, and a text that is no timestamp
ExpiresAtValues ==
  { None, << >>,
    Zulu(AddDays(StartClock, -3)), Zulu(AddDays(StartClock, -1)),
    Zulu(StartClock), Zulu(AddDays(StartClock, 1)),
    IsoFormat(<< StartDay - 1, StartSecond + 7200, 0 >>) \o << "+", "0", "2", ":", "0", "0" >>,
    IsoFormat(AddDays(StartClock, -1)),
    << "s", "o", "o", "n" >> }

\* grace_period_days of the receipts: missing, numbers of days, a number
\* written as text, a text that is no number
GraceValues ==
  { None, PyInt(<< "0" >>), PyInt(<< "1" >>), PyInt(<< "3" >>), << "3" >>, << "m", "a", "n", "y" >> }

Payload(device_id, expires_at, grace_period_days) ==
  LET all == [device_id_hash |-> device_hash(device_id), expires_at |-> expires_at,
              grace_period_days |-> grace_period_days]
  IN  [f \in { g \in DOMAIN all : all[g] # None } |-> all[f]]

Receipt(version, segments, payload, signer) ==
  [version |-> version, segments |-> segments, payload |-> payload,
   payload_type |-> "dict", signer |-> signer]

\* the receipts of the service for the first device, and receipts with
\* something wrong: another signer (one of them expired as well), another
\* version, a segment missing
Receipts ==
  { Receipt("v1", 3, Payload(<< "d", "e", "v", "-", "1" >>, x, g), SERVICE) :
      x \in ExpiresAtValues, g \in GraceValues }
  \cup { Receipt("v1", 3, Payload(<< "d", "e", "v", "-", "1" >>, Zulu(AddDays(StartClock, -1)), PyInt(<< "3" >>)),
                 "stranger"),
         Receipt("v1", 3, Payload(<< "d", "e", "v", "-", "1" >>, Zulu(AddDays(StartClock, -3)), None), "stranger"),
         Receipt("v2", 3, Payload(<< "d", "e", "v", "-", "1" >>, None, None), SERVICE),
         Receipt("v1", 2, Payload(<< "d", "e", "v", "-", "1" >>, None, None), SERVICE) }

\* receipts of the service whose payload is no JSON object (an empty array,
\* a number, null) or does not decode, and a receipt for the first device
\* whose signature segment does not decode
OddReceipts ==
  { [Receipt("v1", 3, << >>, SERVICE) EXCEPT !.payload_type = "list"],
    [Receipt("v1", 3, PyInt(<< "1" >>), SERVICE) EXCEPT !.payload_type = "int"],
    [Receipt("v1", 3, None, SERVICE) EXCEPT !.payload_type = "NoneType"],
    [Receipt("v1", 3, None, SERVICE) EXCEPT !.payload_type = UNDECODABLE],
    Receipt("v1", 3, Payload(<< "d", "e", "v", "-", "1" >>, None, None), UNDECODABLE) }

\* the now argument: missing, the clock in UTC, the clock as a naive datetime
NowArguments(utcnow) == { << >>, << NowUtc(utcnow) >>, << << "naive", utcnow >> >> }

(***************************************************************************)
(* Receipt operations as steps                                             *)
(***************************************************************************)
\* a receipt comes into the caller's hands
ReceiveReceipt(tok) ==
  /\ token' = Some(tok)
  /\ call' = [op |-> "receive receipt"]
  /\ ret' = None
  /\ UNCHANGED << held_key, key_source, clock, machine_id, license_file,
                  file_source, held_license, license_source, receipt_file,
                  machine_id_file, descriptors, callers, startup >>

\* ReceiptVerifier(public_key_pem).validate_offline(token, device_id, now,
\* verify_signature)
ValidateOffline(device_id, now, verify, public_key_pem) ==
  /\ token # NoDict
  /\ call' = [op |-> "validate_offline", device_id |-> device_id, now |-> now,
              verify_signature |-> verify, public_key_pem |-> public_key_pem]
  /\ ret' = validate_offline(token[1], device_id, now, verify, public_key_pem, clock)
  /\ UNCHANGED << held_key, key_source, clock, machine_id, license_file,
                  file_source, held_license, license_source, token, receipt_file,
                  machine_id_file, descriptors, callers, startup >>

NextReceipt ==
  \/ \E tok \in Receipts \cup OddReceipts : ReceiveReceipt(tok)
  \/ \E device_id \in DeviceIds, now \in NowArguments(clock), verify \in BOOLEAN,
        public_key_pem \in { << >>, << SERVICE >> } :
       ValidateOffline(device_id, now, verify, public_key_pem)
  \/ Tick

SpecReceipt == InitLicense /\ [][NextReceipt]_vars
(***************************************************************************)
(* Properties of the receipts                                              *)
(***************************************************************************)
\* validate_offline has been called with a receipt that passes the
\* signature check (when asked for) and the device check
PassedSignatureAndDevice ==
  /\ call.op = "validate_offline"
  /\ token[1].segments = 3 /\ token[1].version = "v1"
  /\ token[1].payload_type = "dict"
  /\ call.verify_signature =>
       (call.public_key_pem # << >> /\ token[1].signer = SERVICE)
  /\ Get(token[1].payload, "device_id_hash") = device_hash(call.device_id)

\* the receipt's expires_at is missing or a timestamp with a UTC offset, its
\* grace_period_days is missing or a number, and now is missing or aware
TimedAsTheServiceWrites ==
  LET expires_at == Get(token[1].payload, "expires_at")
      grace == Get(token[1].payload, "grace_period_days")
  IN  /\ expires_at = None \/ FromIsoFormat(ReplaceZ(expires_at))[1] = "aware"
      /\ grace = None \/ IsInt(grace)
      /\ call.now = << >> \/ call.now[1][1] = "aware"

ValidatedOffline ==
  /\ call.op = "validate_offline"
  /\ call.verify_signature => call.public_key_pem # << >>

\* the held receipt is not three segments of version v1
FormatFails == token[1].segments # 3 \/ token[1].version # "v1"

\* the held receipt is not three segments of version v1, or its payload
\* segment does not decode
ParseFails == FormatFails \/ token[1].payload_type = UNDECODABLE

\* the signature is asked for and is not one of the configured key
SignatureFails ==
  /\ call.verify_signature
  /\ token[1].signer \notin { call.public_key_pem[1], UNDECODABLE }

\* the signature is not asked for, or is one of the configured key
SignaturePasses ==
  call.verify_signature => token[1].signer = call.public_key_pem[1]

\* the payload is an object whose device_id_hash is not the digest of the
\* device id of the call
DeviceFails ==
  /\ token[1].payload_type = "dict"
  /\ Get(token[1].payload, "device_id_hash") # device_hash(call.device_id)

\* the payload is an object with the digest of the device id of the call
DevicePasses ==
  /\ token[1].payload_type = "dict"
  /\ Get(token[1].payload, "device_id_hash") = device_hash(call.device_id)

\* expires_at plus the days of grace is a moment before the clock, and now
\* is missing or aware
PastGrace ==
  LET expires_at == Get(token[1].payload, "expires_at")
      grace == Get(token[1].payload, "grace_period_days")
  IN  /\ token[1].payload_type = "dict"
      /\ expires_at # None
      /\ FromIsoFormat(ReplaceZ(expires_at))[1] = "aware"
      /\ grace = None \/ IsInt(grace)
      /\ call.now = << >> \/ call.now[1][1] = "aware"
      /\ Later(clock, AddDays(Utc(FromIsoFormat(ReplaceZ(expires_at))),
                              IF grace = None THEN 0 ELSE Number(Tail(grace))))

C12_MismatchWhateverSignature ==
  (call.op = "validate_offline" /\ ~ParseFails /\ DeviceFails) =>
    ret = ReceiptValidationResult(FALSE, DEVICE_MISMATCH, None, None)

\* C12: a well-formed receipt with another device hash is device_mismatch
\* when the signature is not verified (whoever signed it) or is verified and
\* valid; when it is verified and invalid the result is invalid_signature,
\* without a public key the verification raises public_key_required, and a
\* signature segment that is no base64 raises binascii.Error
C12_MismatchPastSignature ==
  (call.op = "validate_offline" /\ ~ParseFails /\ DeviceFails) =>
    /\ ~call.verify_signature =>
         ret = ReceiptValidationResult(FALSE, DEVICE_MISMATCH, None, None)
    /\ (call.verify_signature /\ call.public_key_pem = << >>) =>
         ret = ReceiptError("public_key_required")
    /\ (call.verify_signature /\ call.public_key_pem # << >>
          /\ token[1].signer = UNDECODABLE) =>
         ret = Raise(BinasciiError)
    /\ (call.verify_signature /\ call.public_key_pem # << >>
          /\ token[1].signer # UNDECODABLE) =>
         ret = ReceiptValidationResult(
                 FALSE,
                 IF token[1].signer = call.public_key_pem[1]
                 THEN DEVICE_MISMATCH ELSE INVALID_SIGNATURE,
                 None, None)

\* a receipt signed by a stranger, validated for another device without
\* verifying the signature, is device_mismatch
C12_ForgedMismatchUnverified ==
  /\ call.op = "validate_offline"
  /\ ~call.verify_signature
  /\ token[1].signer # SERVICE
  /\ ~ParseFails /\ DeviceFails
  /\ ret = ReceiptValidationResult(FALSE, DEVICE_MISMATCH, None, None)

(***************************************************************************)
(* Exceptions that leave validate_offline                                  *)
(***************************************************************************)
\* C14 as stated: validate_offline returns a ReceiptValidationResult for
\* every token and raises nothing
C14_AlwaysATaggedResult ==
  call.op = "validate_offline" => "valid" \in DOMAIN ret
(***************************************************************************)
(* Receipt tokens as text: ReceiptVerifier.parse (receipt.py, lines 31-39) *)
(* on the characters of a token                                            *)
(***************************************************************************)
\* the exceptions "except Exception" of parse would let through
CaughtByParse_JsonOnly(e) == e = JSONDecodeError

\* "except Exception" (line 38): binascii.Error, UnicodeDecodeError and
\* JSONDecodeError are ValueErrors, and ValueError is an Exception
CaughtByParse(e) == e \in { ValueError, BinasciiError, UnicodeDecodeError, JSONDecodeError }

\* lines 35-39 of parse: the payload segment decoded, or ReceiptError
DecodePayload(segment) ==
  LET decoded == _b64url_decode(segment)
      payload_json == Utf8Decode(decoded.bytes)
      loaded == JsonLoads(payload_json.text)
      raised == IF "raised" \in DOMAIN decoded THEN decoded
                ELSE IF "raised" \in DOMAIN payload_json THEN payload_json
                ELSE IF "raised" \in DOMAIN loaded THEN loaded
                ELSE [returned |-> loaded.value]
  IN  IF "raised" \in DOMAIN raised /\ CaughtByParse(raised.raised)
      THEN ReceiptError("invalid_receipt_payload")
      ELSE raised

\* ReceiptVerifier.parse(token) on the text of the token
parse_text(tok) ==
  LET parts == Split(tok, ".")
  IN  IF Len(parts) # 3 \/ parts[1] # << "v", "1" >>
      THEN ReceiptError("invalid_receipt_format")
      ELSE DecodePayload(parts[2])

(***************************************************************************)
(* Token texts and the steps on them                                       *)
(***************************************************************************)
MaxTokenEdits == 1

\* tokens with an object, an array, a number, null and NaN as payload, with
\* whitespace around the payload, with a payload that is no JSON, no UTF-8
\* or no base64, and with the wrong number of segments or version
TokenTexts ==
  { << "v", "1", ".", "e", "y", "J", "h", "I", "j", "o", "x", "f", "Q", ".", "s", "g" >>,
    << "v", "1", ".", "e", "3", "0", ".", "s", "g" >>,
    << "v", "1", ".", "W", "1", "0", ".", "s", "g" >>,
    << "v", "1", ".", "M", "Q", ".", "s", "g" >>,
    << "v", "1", ".", "b", "n", "V", "s", "b", "A", ".", "s", "g" >>,
    << "v", "1", ".", "T", "m", "F", "O", ".", "s", "g" >>,
    << "v", "1", ".", "I", "H", "t", "9", "I", "A", ".", "s", "g" >>,
    << "v", "1", ".", "e", "3", ".", "s", "g" >>,
    << "v", "1", ".", "_", "w", ".", "s", "g" >>,
    << "v", "1", ".", "e", ".", "s", "g" >>,
    << "v", "1", ".", ".", "s", "g" >>,
    << "v", "1", ".", "I", "l", "x", "1", "M", "D", "B", "l", "O", "S", "I", ".", "s" >>,
    << "v", "1", ".", "W", "z", "E", "s", "I", "m", "E", "i", "X", "Q", ".", "s" >>,
    << "v", "1", ".", "L", "T", "E", "u", "N", "W", "U", "z", ".", "s" >>,
    << "v", "1", ".", "I", "s", "O", "p", "I", "g", ".", "s" >>,
    << "v", "1", ".", "e", "3", "0" >>,
    << "v", "2", ".", "e", "3", "0", ".", "s", "g" >>,
    << "v", "1", ".", "e", "3", "0", ".", "s", "g", ".", "x" >>,
    << >>,
    << "v", "1" >> }

TokenEditChars == { ".", "=", "A", "0", "_", "!", "v", NONASCII }

\* a token text comes into the caller's hands
ReceiveTokenText(text) ==
  /\ token' = Some(text)
  /\ key_source' = [by |-> "received", edits |-> 0]
  /\ call' = [op |-> "receive token"]
  /\ ret' = None
  /\ UNCHANGED << held_key, clock, machine_id, license_file, file_source,
                  held_license, license_source, receipt_file, machine_id_file,
                  descriptors, callers, startup >>

\* one character of the held token is replaced
ReplaceTokenChar(i, c) ==
  /\ token # NoDict
  /\ key_source.edits < MaxTokenEdits
  /\ i \in 1..Len(token[1])
  /\ token[1][i] # c
  /\ token' = Some([token[1] EXCEPT ![i] = c])
  /\ key_source' = [key_source EXCEPT !.edits = @ + 1]
  /\ call' = [op |-> "edit token"]
  /\ ret' = None
  /\ UNCHANGED << held_key, clock, machine_id, license_file, file_source,
                  held_license, license_source, receipt_file, machine_id_file,
                  descriptors, callers, startup >>

\* one character of the held token is lost
DropTokenChar(i) ==
  /\ token # NoDict
  /\ key_source.edits < MaxTokenEdits
  /\ i \in 1..Len(token[1])
  /\ token' = Some(SubSeq(token[1], 1, i - 1) \o SubSeq(token[1], i + 1, Len(token[1])))
  /\ key_source' = [key_source EXCEPT !.edits = @ + 1]
  /\ call' = [op |-> "edit token"]
  /\ ret' = None
  /\ UNCHANGED << held_key, clock, machine_id, license_file, file_source,
                  held_license, license_source, receipt_file, machine_id_file,
                  descriptors, callers, startup >>

\* ReceiptVerifier().parse(token)
Parse ==
  /\ token # NoDict
  /\ call' = [op |-> "parse"]
  /\ ret' = parse_text(token[1])
  /\ UNCHANGED << held_key, key_source, clock, machine_id, license_file,
                  file_source, held_license, license_source, token, receipt_file,
                  machine_id_file, descriptors, callers, startup >>

MaxTokenLen == 16

NextParse ==
  \/ \E text \in TokenTexts : ReceiveTokenText(text)
  \/ \E i \in 1..MaxTokenLen, c \in TokenEditChars : ReplaceTokenChar(i, c)
  \/ \E i \in 1..MaxTokenLen : DropTokenChar(i)
  \/ Parse

SpecParse == InitLicense /\ [][NextParse]_vars
(***************************************************************************)
(* Properties of parse                                                     *)
(***************************************************************************)
\* the text has exactly two dots and begins with "v1."
ThreeSegmentsOfV1(text) ==
  /\ Cardinality(SepPositions(text, ".")) = 2
  /\ Len(text) >= 3
  /\ SubSeq(text, 1, 3) = << "v", "1", "." >>

\* the text between the first and the second dot
PayloadSegment(text) ==
  LET first == CHOOSE i \in SepPositions(text, ".") :
                 \A j \in SepPositions(text, ".") : i <= j
      second == CHOOSE i \in SepPositions(text, ".") :
                  \A j \in SepPositions(text, ".") : j <= i
  IN  SubSeq(text, first + 1, second - 1)

\* the exception that base64, UTF-8 or JSON decoding of the segment raises,
\* in a sequence; the empty sequence when all three succeed
PayloadFault(segment) ==
  LET decoded == _b64url_decode(segment)
  IN  IF "raised" \in DOMAIN decoded THEN << decoded.raised >>
      ELSE IF "raised" \in DOMAIN Utf8Decode(decoded.bytes)
           THEN << Utf8Decode(decoded.bytes).raised >>
      ELSE IF "raised" \in DOMAIN JsonLoads(Utf8Decode(decoded.bytes).text)
           THEN << JsonLoads(Utf8Decode(decoded.bytes).text).raised >>
      ELSE << >>

\* C13: parse raises invalid_receipt_format for a token that is not three
\* dot-separated parts with the first equal to v1 (every two-part token
\* among them), raises invalid_receipt_payload for a three-part v1 token
\* whose middle part fails base64url, UTF-8 or JSON decoding, returns the
\* decoded value otherwise, and raises nothing else
C13_TwoTaggedErrors ==
  call.op = "parse" =>
    /\ ~ThreeSegmentsOfV1(token[1]) => ret = ReceiptError("invalid_receipt_format")
    /\ (ThreeSegmentsOfV1(token[1]) /\ PayloadFault(PayloadSegment(token[1])) # << >>) =>
         ret = ReceiptError("invalid_receipt_payload")
    /\ (ThreeSegmentsOfV1(token[1]) /\ PayloadFault(PayloadSegment(token[1])) = << >>) =>
         "returned" \in DOMAIN ret
    /\ "raised" \in DOMAIN ret =>
         ret \in { ReceiptError("invalid_receipt_format"),
                   ReceiptError("invalid_receipt_payload") }

\* a v1 token of three parts whose payload segment is base64 of bytes that
\* are no UTF-8 has been parsed: invalid_receipt_payload
C13_BrokenUtf8Tagged ==
  /\ call.op = "parse"
  /\ ThreeSegmentsOfV1(token[1])
  /\ PayloadFault(PayloadSegment(token[1])) = << UnicodeDecodeError >>
  /\ ret = ReceiptError("invalid_receipt_payload")
(***************************************************************************)
(* The client and its storage (sdk-python/alure_sdk/storage.py, client.py) *)
(* and the example caller (sdk-python/examples/client_app.py).             *)
(* receipt.json is absent (the empty sequence), or holds the text that     *)
(* json.dumps writes for a dict (kept as that dict), or some other text.   *)
(***************************************************************************)
KeyError(key) == << "KeyError", key >>
UnboundLocalError == << "UnboundLocalError" >>
HttpError(status, message) == << "HttpError", status, message >>
URLError == << "URLError" >>

MISSING_RECEIPT == << "m", "i", "s", "s", "i", "n", "g", "_", "r", "e", "c", "e", "i", "p", "t" >>

\* the file with the text json.dumps writes for a dict
JsonFile(d) == << [kind |-> "json", value |-> d] >>
\* the file with some other text
TextFile(text) == << [kind |-> "text", text |-> text] >>

ReceiptRecord(receipt, device_id, activation_id, project_id) ==
  [receipt |-> receipt, device_id |-> device_id, activation_id |-> activation_id,
   project_id |-> project_id]

\* FileStorage.save_receipt(record): the file it writes
save_receipt(record) == JsonFile(record)

\* the value of a key among the items of a parsed object, in a sequence;
\* the empty sequence when the key is missing
ItemOf(items, key) ==
  IF \E k \in 1..Len(items) : items[k][1] = key
  THEN << items[CHOOSE k \in 1..Len(items) : items[k][1] = key][2] >>
  ELSE << >>

\* load_receipt on a file whose text is not one json.dumps wrote
load_receipt_text(text) ==
  LET loaded == JsonLoads(text)
  IN  IF "raised" \in DOMAIN loaded THEN loaded
      ELSE IF loaded.value[1] # "dict" THEN Raise(TypeError)
      ELSE IF ItemOf(loaded.value[2], << "r", "e", "c", "e", "i", "p", "t" >>) = << >> THEN Raise(KeyError("receipt"))
      ELSE IF ItemOf(loaded.value[2], << "d", "e", "v", "i", "c", "e", "_", "i", "d" >>) = << >> THEN Raise(KeyError("device_id"))
      ELSE [returned |->
              << ReceiptRecord(ItemOf(loaded.value[2], << "r", "e", "c", "e", "i", "p", "t" >>)[1],
                               ItemOf(loaded.value[2], << "d", "e", "v", "i", "c", "e", "_", "i", "d" >>)[1],
                               ItemOf(loaded.value[2], << "a", "c", "t", "i", "v", "a", "t", "i", "o", "n", "_", "i", "d" >>),
                               ItemOf(loaded.value[2], << "p", "r", "o", "j", "e", "c", "t", "_", "i", "d" >>)) >>]

\* FileStorage.load_receipt(): the record in a sequence (the empty sequence
\* for None), or the exception that leaves it
load_receipt(file) ==
  IF file = << >> THEN [returned |-> << >>]
  ELSE IF file[1].kind = "text" THEN load_receipt_text(file[1].text)
  ELSE IF "receipt" \notin DOMAIN file[1].value THEN Raise(KeyError("receipt"))
  ELSE IF "device_id" \notin DOMAIN file[1].value THEN Raise(KeyError("device_id"))
  ELSE [returned |->
          << ReceiptRecord(file[1].value.receipt, file[1].value.device_id,
                           Get(file[1].value, "activation_id"),
                           Get(file[1].value, "project_id")) >>]

\* lines 224-225: .get("project_id") of what parse returned, None when
\* parse or .get raised
ProjectIdOf(parsed) ==
  IF "raised" \in DOMAIN parsed THEN None
  ELSE IF parsed.type # "dict" THEN None
  ELSE Get(parsed.payload, "project_id")

\* AlureClient._extract_project_id(receipt)
_extract_project_id(receipt) == ProjectIdOf(parse(receipt))

\* no record was read from receipt.json
NotLoaded == [returned |-> << >>]

\* lines 141-147 of verify_offline, stored being what load_receipt gave
\* when it was called
OfflineWithStored(receipt, device_id, verify, stored, public_key_pem, utcnow) ==
  IF "raised" \in DOMAIN stored THEN stored
  ELSE IF (receipt = << >> \/ device_id = << >>) /\ stored.returned = << >>
       THEN ReceiptValidationResult(FALSE, MISSING_RECEIPT, None, None)
  ELSE validate_offline(
         IF receipt # << >> THEN receipt[1] ELSE stored.returned[1].receipt,
         IF device_id # << >> THEN device_id[1] ELSE stored.returned[1].device_id,
         << >>, verify, public_key_pem, utcnow)

\* AlureClient.verify_offline(receipt, device_id, verify_signature) of a
\* client with this receipt.json and this public key; receipt and device_id
\* are Optional, and load_receipt is called when one of them is missing
verify_offline(receipt, device_id, verify, file, public_key_pem, utcnow) ==
  OfflineWithStored(receipt, device_id, verify,
                 IF receipt # << >> /\ device_id # << >> THEN NotLoaded
                 ELSE load_receipt(file),
                 public_key_pem, utcnow)

\* lines 124-133 of verify_online: stored is Optional, empty when the
\* local variable was never assigned
PersistNewReceipt(data, device_id, stored, file) ==
  IF "new_receipt" \notin DOMAIN data THEN [ret |-> [returned |-> data], file |-> file]
  ELSE IF stored = << >> THEN [ret |-> Raise(UnboundLocalError), file |-> file]
  ELSE [ret |-> [returned |-> data],
        file |-> save_receipt(ReceiptRecord(data.new_receipt, device_id,
                                            stored[1].activation_id,
                                            _extract_project_id(data.new_receipt)))]

\* lines 117-133 of verify_online, loads telling whether load_receipt was
\* called and stored being what it gave
RequestAndPersist(loads, device_id, stored, file, response) ==
  IF "raised" \in DOMAIN stored THEN [ret |-> stored, file |-> file]
  ELSE IF loads /\ stored.returned = << >>
       THEN [ret |-> Raise(HttpError("400", MISSING_RECEIPT)), file |-> file]
  ELSE IF "raised" \in DOMAIN response THEN [ret |-> response, file |-> file]
  ELSE PersistNewReceipt(
         response.data,
         IF device_id # << >> THEN device_id[1] ELSE stored.returned[1].device_id,
         stored.returned, file)

\* AlureClient.verify_online(receipt, device_id) when the server answers
\* with response (the JSON object, or the exception _request raises): what
\* the call returns or raises, and receipt.json afterwards
verify_online(receipt, device_id, file, response) ==
  RequestAndPersist(receipt = << >> \/ device_id = << >>, device_id,
                    IF receipt # << >> /\ device_id # << >> THEN NotLoaded
                    ELSE load_receipt(file),
                    file, response)

\* the first of the fields ActivateResponse takes with data[...] that the
\* answer lacks, none when it has them all
RequiredOfAnswer == << "receipt", "activation_id", "grace_period_days", "server_time" >>
MissingOfAnswer(data) ==
  IF \A i \in 1..4 : RequiredOfAnswer[i] \in DOMAIN data THEN << >>
  ELSE << RequiredOfAnswer[CHOOSE i \in 1..4 :
                             /\ RequiredOfAnswer[i] \notin DOMAIN data
                             /\ \A j \in 1..(i - 1) : RequiredOfAnswer[j] \in DOMAIN data] >>

\* ActivateResponse(receipt=..., activation_id=..., expires_at=...,
\* grace_period_days=..., server_time=...) of lines 108-114
ActivateResponse(data) ==
  IF MissingOfAnswer(data) # << >> THEN Raise(KeyError(MissingOfAnswer(data)[1]))
  ELSE [returned |-> [receipt |-> data.receipt, activation_id |-> data.activation_id,
                      expires_at |-> Get(data, "expires_at"),
                      grace_period_days |-> data.grace_period_days,
                      server_time |-> data.server_time]]

\* AlureClient.activate(license_key, device_id) when the server answers
\* with response: the record is saved (line 107) before the answer is
\* built (lines 108-114)
activate(device_id, file, response) ==
  IF "raised" \in DOMAIN response THEN [ret |-> response, file |-> file]
  ELSE IF "receipt" \notin DOMAIN response.data
       THEN [ret |-> Raise(KeyError("receipt")), file |-> file]
  ELSE [ret |-> ActivateResponse(response.data),
        file |-> save_receipt(ReceiptRecord(response.data.receipt, device_id,
                                            Get(response.data, "activation_id"),
                                            _extract_project_id(response.data.receipt)))]

\* lines 12-17 of ensure_license: online is what verify_online() did,
\* offline what verify_offline(verify_signature=False) does after it
OnlineThenOffline(online, offline, file) ==
  IF "returned" \in DOMAIN online.ret
  THEN [ret |-> [returned |-> "valid" \in DOMAIN online.ret.returned
                               /\ online.ret.returned.valid],
        file |-> online.file]
  ELSE IF online.ret.raised[1] \notin { "HttpError", "URLError" } THEN online
  ELSE IF "raised" \in DOMAIN offline THEN [ret |-> offline, file |-> file]
  ELSE [ret |-> [returned |-> offline.valid], file |-> file]

\* lines 8-17 of ensure_license, stored being what each load_receipt of the
\* call gives (receipt.json is the same for the three of them)
EnsureStored(stored, file, response, public_key_pem, utcnow) ==
  IF "raised" \in DOMAIN stored THEN [ret |-> stored, file |-> file]
  ELSE IF stored.returned = << >> THEN [ret |-> [returned |-> FALSE], file |-> file]
  ELSE OnlineThenOffline(
         RequestAndPersist(TRUE, << >>, stored, file, response),
         OfflineWithStored(<< >>, << >>, FALSE, stored, public_key_pem, utcnow),
         file)

\* examples/client_app.py ensure_license(client): the bool it returns or
\* the exception that leaves it, and receipt.json afterwards
ensure_license(file, response, public_key_pem, utcnow) ==
  EnsureStored(load_receipt(file), file, response, public_key_pem, utcnow)

(***************************************************************************)
(* Inputs of the client                                                    *)
(***************************************************************************)
\* receipts of the service for the first device: one without expiry, its
\* replacement that expires tomorrow, one that expired three days ago; and
\* one without expiry that a stranger signed
Perpetual == Receipt("v1", 3, Payload(<< "d", "e", "v", "-", "1" >>, None, None), SERVICE)
Renewal == Receipt("v1", 3, Payload(<< "d", "e", "v", "-", "1" >>, Zulu(AddDays(StartClock, 1)), PyInt(<< "3" >>)),
                   SERVICE)
Lapsed == Receipt("v1", 3, Payload(<< "d", "e", "v", "-", "1" >>, Zulu(AddDays(StartClock, -3)), None), SERVICE)
Forged == Receipt("v1", 3, Payload(<< "d", "e", "v", "-", "1" >>, None, None), "stranger")

ACTIVATION == << "a", "c", "t", "-", "1" >>

\* answers of POST /licenses/verify: valid, valid with a replacement
\* receipt, not valid, a refusal, and no connection
VerifyResponses ==
  { [data |-> [valid |-> TRUE]],
    [data |-> [valid |-> TRUE, new_receipt |-> Renewal]],
    [data |-> [valid |-> FALSE]],
    Raise(HttpError("401", << "r", "e", "v", "o", "k", "e", "d" >>)),
    Raise(URLError) }

\* answers of POST /licenses/activate
SERVER_TIME == << "2", "0", "2", "6", "-", "1", "1", "-", "0", "2", "T", "1", "0", ":", "0", "0", ":", "0", "0", "Z" >>
FullAnswer ==
  [receipt |-> Perpetual, activation_id |-> ACTIVATION, grace_period_days |-> 7,
   server_time |-> SERVER_TIME]

ActivateResponses ==
  { [data |-> FullAnswer],
    Raise(HttpError("409", << "a", "c", "t", "i", "v", "a", "t", "i", "o", "n", "_", "a", "l", "r", "e", "a", "d", "y", "_", "e", "x", "i", "s", "t", "s" >>)) }

\* answers of POST /licenses/activate that lack a field, and no connection
PartialResponses ==
  { [data |-> Without(FullAnswer, f)] :
      f \in { "receipt", "activation_id", "grace_period_days", "server_time" } }
  \cup { [data |-> [receipt |-> Renewal]], [data |-> EmptyDict], Raise(URLError) }

\* texts of a receipt.json that was cut short while written, emptied,
\* overwritten, or written without one of its fields
DamagedTexts ==
  { << >>,
    << "{" >>,
    << "{", "\n", " ", " ", "\"", "r", "e", "c", "e", "i", "p", "t", "\"", ":", " ", "\"", "v", "1", ".", "e", "3" >>,
    << "{", "\"", "r", "e", "c", "e", "i", "p", "t", "\"", ":", " ", "\"", "v", "1", ".", "e", "3", "0", ".", "s", "g", "\"", "}" >>,
    << "{", "\"", "d", "e", "v", "i", "c", "e", "_", "i", "d", "\"", ":", " ", "\"", "d", "e", "v", "-", "1", "\"", "}" >>,
    << "[", "]" >>,
    << "n", "u", "l", "l" >>,
    << "r", "e", "c", "e", "i", "p", "t" >> }

\* what receipt.json holds after someone else wrote it: records with the
\* forged receipt and with the lapsed one, a record without device_id, and
\* the damaged texts
ForeignFiles ==
  { JsonFile(ReceiptRecord(Forged, << "d", "e", "v", "-", "1" >>, None, None)),
    JsonFile(ReceiptRecord(Lapsed, << "d", "e", "v", "-", "1" >>, ACTIVATION, None)),
    JsonFile([receipt |-> Perpetual]) }
  \cup { TextFile(text) : text \in DamagedTexts }

OptionalReceipts == { << >>, << Perpetual >>, << Forged >> }
OptionalDevices == { << >>, << << "d", "e", "v", "-", "1" >> >>, << << "d", "e", "v", "-", "2" >> >> }
PublicKeys == { << >>, << SERVICE >> }

(***************************************************************************)
(* Client operations as steps                                              *)
(***************************************************************************)
NotClientVars == << held_key, key_source, clock, machine_id, license_file, file_source,
                    held_license, license_source, token, machine_id_file, descriptors, callers, startup >>

\* AlureClient.activate(license_key, device_id)
Activate(device_id, response) ==
  /\ call' = [op |-> "activate", device_id |-> device_id, response |-> response]
  /\ \E done \in { activate(device_id, receipt_file, response) } :
       ret' = done.ret /\ receipt_file' = done.file
  /\ UNCHANGED NotClientVars

\* AlureClient.verify_online(receipt, device_id)
VerifyOnline(receipt, device_id, response) ==
  /\ call' = [op |-> "verify_online", receipt |-> receipt, device_id |-> device_id,
              response |-> response, file |-> receipt_file]
  /\ \E done \in { verify_online(receipt, device_id, receipt_file, response) } :
       ret' = done.ret /\ receipt_file' = done.file
  /\ UNCHANGED NotClientVars

\* AlureClient(public_key_pem=...).verify_offline(receipt, device_id,
\* verify_signature)
VerifyOffline(receipt, device_id, verify, public_key_pem) ==
  /\ call' = [op |-> "verify_offline", receipt |-> receipt, device_id |-> device_id,
              verify_signature |-> verify, public_key_pem |-> public_key_pem]
  /\ ret' = verify_offline(receipt, device_id, verify, receipt_file, public_key_pem, clock)
  /\ UNCHANGED receipt_file
  /\ UNCHANGED NotClientVars

\* FileStorage.load_receipt()
LoadReceipt ==
  /\ call' = [op |-> "load_receipt"]
  /\ ret' = load_receipt(receipt_file)
  /\ UNCHANGED receipt_file
  /\ UNCHANGED NotClientVars

\* ensure_license(client) of the example application
EnsureLicense(response, public_key_pem) ==
  /\ call' = [op |-> "ensure_license", response |-> response,
              public_key_pem |-> public_key_pem, file |-> receipt_file]
  /\ \E done \in { ensure_license(receipt_file, response, public_key_pem, clock) } :
       ret' = done.ret /\ receipt_file' = done.file
  /\ UNCHANGED NotClientVars

\* receipt.json is written or damaged from outside the client
WriteReceiptFile(file) ==
  /\ receipt_file' = file
  /\ call' = [op |-> "write receipt.json"]
  /\ ret' = None
  /\ UNCHANGED NotClientVars

\* receipt.json is removed
RemoveReceiptFile ==
  /\ receipt_file # << >>
  /\ receipt_file' = << >>
  /\ call' = [op |-> "remove receipt.json"]
  /\ ret' = None
  /\ UNCHANGED NotClientVars

\* activation with every answer of the server, and the file read, written
\* from outside or removed in between
NextActivation ==
  \/ \E device_id \in DeviceIds, response \in ActivateResponses \cup PartialResponses :
       Activate(device_id, response)
  \/ LoadReceipt
  \/ \E file \in ForeignFiles : WriteReceiptFile(file)
  \/ RemoveReceiptFile

SpecActivation == InitLicense /\ [][NextActivation]_vars

NextClient ==
  \/ \E device_id \in DeviceIds, response \in ActivateResponses :
       Activate(device_id, response)
  \/ \E receipt \in OptionalReceipts, device_id \in OptionalDevices,
        response \in VerifyResponses :
       VerifyOnline(receipt, device_id, response)
  \/ \E receipt \in OptionalReceipts, device_id \in OptionalDevices, verify \in BOOLEAN,
        public_key_pem \in PublicKeys :
       VerifyOffline(receipt, device_id, verify, public_key_pem)
  \/ LoadReceipt
  \/ \E response \in VerifyResponses, public_key_pem \in PublicKeys :
       EnsureLicense(response, public_key_pem)
  \/ \E file \in ForeignFiles : WriteReceiptFile(file)
  \/ RemoveReceiptFile

SpecClient == InitLicense /\ [][NextClient]_vars
(***************************************************************************)
(* Properties of the client and its storage                                *)
(***************************************************************************)
\* the record verify_online or ensure_license found in receipt.json, in a
\* sequence; empty when the file was absent or did not load
StoredBefore ==
  IF "returned" \in DOMAIN load_receipt(call.file) THEN load_receipt(call.file).returned
  ELSE << >>

\* verify_online sent its request and the answer carries new_receipt
AnsweredWithNewReceipt ==
  /\ call.op = "verify_online"
  /\ (call.receipt # << >> /\ call.device_id # << >>) \/ StoredBefore # << >>
  /\ "data" \in DOMAIN call.response
  /\ "new_receipt" \in DOMAIN call.response.data

\* C15: ensure_license of the example application, when the server cannot
\* be asked, answers True only for a stored receipt that the service signed.
C15_OfflineValidOnlyIfSigned ==
  ( /\ call.op = "ensure_license"
    /\ "raised" \in DOMAIN call.response
    /\ "returned" \in DOMAIN ret
    /\ ret.returned )
  => StoredBefore[1].receipt.signer = SERVICE

\* C16: whenever verify_online receives an answer with new_receipt, it
\* returns the answer, and receipt.json then holds new_receipt with the
\* device id of the request and the activation_id stored before.
C16_NewReceiptPersisted ==
  AnsweredWithNewReceipt
  => /\ ret = [returned |-> call.response.data]
     /\ receipt_file # << >>
     /\ "returned" \in DOMAIN load_receipt(receipt_file)
     /\ load_receipt(receipt_file).returned[1].receipt = call.response.data.new_receipt
     /\ load_receipt(receipt_file).returned[1].device_id =
          (IF call.device_id # << >> THEN call.device_id[1] ELSE StoredBefore[1].device_id)
     /\ StoredBefore # << >>
        => load_receipt(receipt_file).returned[1].activation_id = StoredBefore[1].activation_id

\* C18: load_receipt never raises, and verify_offline() without arguments
\* answers missing_receipt when receipt.json is damaged.
C18_DamagedFileIsAbsent ==
  /\ call.op = "load_receipt" => "returned" \in DOMAIN ret
  /\ ( /\ call.op = "verify_offline"
       /\ call.receipt = << >>
       /\ call.device_id = << >>
       /\ receipt_file # << >>
       /\ receipt_file[1].kind = "text" )
     => ret = ReceiptValidationResult(FALSE, MISSING_RECEIPT, None, None)

\* C29: activate changes the stored receipt record only when it returns an
\* ActivateResponse: when it raises, for a transport or HTTP error or for
\* an answer without receipt, activation_id, grace_period_days or
\* server_time, receipt.json is what it was before the call.
C29_StoredOnlyOnReturn ==
  [][ (call'.op = "activate" /\ "raised" \in DOMAIN ret')
      => receipt_file' = receipt_file ]_vars
(***************************************************************************)
(* The license file as the manager finds it (license_manager.py): missing, *)
(* damaged, or written by activate_license; and the check at startup.      *)
(***************************************************************************)
\* texts of a license file that are no JSON: an empty file, a file cut
\* short while written, a text written over it
DamagedLicenseTexts ==
  { << >>,
    << "{" >>,
    << "{", "\n", " ", " ", "\"", "l", "i", "c", "e", "n", "s", "e", "_", "k", "e", "y", "\"", ":", " ", "\"", "g", "A", "A", "A", "A" >>,
    << "{", "\"", "l", "i", "c", "e", "n", "s", "e", "_", "k", "e", "y", "\"", ":", " ", "\"", "g", "A", "A", "A", "A", "\"", "," >>,
    << "l", "i", "c", "e", "n", "s", "e" >>,
    << "{", "}", "}" >> }

\* texts that are JSON without being a license: null and the empty object
EmptyLicenseTexts ==
  { << "n", "u", "l", "l" >>,
    << "{", "}" >> }

\* the license file is damaged or written over from outside the manager
WriteLicenseFile(text) ==
  /\ license_file' = LicenseText(text)
  /\ file_source' = [by |-> "outside"]
  /\ call' = [op |-> "write license.json"]
  /\ ret' = None
  /\ UNCHANGED << held_key, key_source, clock, machine_id, held_license, license_source,
                  token, receipt_file, machine_id_file, descriptors, callers, startup >>

\* the license file is removed
RemoveLicenseFile ==
  /\ license_file # NoDict
  /\ license_file' = NoDict
  /\ file_source' = [by |-> "none"]
  /\ call' = [op |-> "remove license.json"]
  /\ ret' = None
  /\ UNCHANGED << held_key, key_source, clock, machine_id, held_license, license_source,
                  token, receipt_file, machine_id_file, descriptors, callers, startup >>

\* LicenseManager.load_license()
LoadLicense ==
  /\ call' = [op |-> "load_license"]
  /\ ret' = load_license(license_file)
  /\ UNCHANGED << held_key, key_source, clock, machine_id, license_file, file_source,
                  held_license, license_source, token, receipt_file, machine_id_file,
                  descriptors, callers, startup >>

\* the loop of check_license_on_startup (lines 703-746) from the i-th answer
\* of the user on: each answer is the key typed (none when the dialog is
\* cancelled), whether save_license can write, and whether the user asks to
\* try again.  Gives whether the loop ended within the answers, what is
\* returned, the answer that ended it and whether the file was written.
RECURSIVE RequestLoop(_, _, _)
RequestLoop(attempts, i, parent) ==
  IF i > Len(attempts)
  THEN [ended |-> FALSE, returned |-> FALSE, at |-> i, wrote |-> FALSE]
  ELSE IF attempts[i].key = << >>
  THEN [ended |-> TRUE, returned |-> FALSE, at |-> i, wrote |-> FALSE]
  ELSE IF activate_license(attempts[i].key[1], attempts[i].saved)[1]
  THEN [ended |-> TRUE, returned |-> TRUE, at |-> i, wrote |-> TRUE]
  ELSE IF parent /\ attempts[i].retry
  THEN RequestLoop(attempts, i + 1, parent)
  ELSE [ended |-> TRUE, returned |-> FALSE, at |-> i, wrote |-> FALSE]

\* lines 684-746 of check_license_on_startup, validated being what
\* validate_license() returned, with save_license taken at its word or not
StartupAfter_Trusting(validated, attempts, parent) ==
  IF validated[1]
  THEN [ended |-> TRUE, returned |-> TRUE, at |-> 0, wrote |-> FALSE]
  ELSE IF attempts = << >>
  THEN [ended |-> FALSE, returned |-> FALSE, at |-> 1, wrote |-> FALSE]
  ELSE [ended |-> TRUE, at |-> 1, wrote |-> FALSE, returned |-> attempts[1].key # << >>]

\* lines 684-746 of check_license_on_startup, validated being what
\* validate_license() returned
StartupAfter(validated, attempts, parent) ==
  IF validated[1]
  THEN [ended |-> TRUE, returned |-> TRUE, at |-> 0, wrote |-> FALSE]
  ELSE RequestLoop(attempts, 1, parent)

\* LicenseManager.check_license_on_startup(parent) with the answers of the
\* user
check_license_on_startup(file, mid, now, attempts, parent) ==
  StartupAfter(validate_license(NoDict, file, mid, now), attempts, parent)

\* keys typed at startup: a predefined key and a text that is no key
StartupKeys ==
  { << "T", "R", "I", "A", "L", "-", "2", "0", "2", "4", "-", "V", "E", "R", "I", "F", "I", "C", "A" >>,
    << "H", "E", "L", "L", "O", "-", "W", "O", "R", "L", "D" >> }

\* the answers of the user: the dialog cancelled, or a key typed, with
\* save_license able to write or not, and the user asking to try again or
\* not after a failure
Answers ==
  { [key |-> << >>, saved |-> TRUE, retry |-> FALSE] }
  \cup { [key |-> << k >>, saved |-> s, retry |-> r] :
           k \in StartupKeys, s \in BOOLEAN, r \in BOOLEAN }

\* the number of answers the user gives at most
MaxAttempts == 2

AnswerSequences == UNION { [1..n -> Answers] : n \in 0..MaxAttempts }

\* LicenseManager.check_license_on_startup(parent): the user gives some
\* answers, all of them are used, and the last one ends the loop
CheckLicenseOnStartup(parent) ==
  \E validated \in { validate_license(NoDict, license_file, machine_id, clock) } :
    \E attempts \in AnswerSequences, elapsed \in 0..MaxElapsed, iv \in Ivs :
      \E done \in { StartupAfter(validated, attempts, parent) } :
        /\ done.ended
        /\ done.at = Len(attempts)
        /\ clock[3] + elapsed <= MaxTicks
        /\ done.wrote \/ elapsed = 0
        /\ call' = [op |-> "check_license_on_startup", attempts |-> attempts,
                    parent |-> parent, validated |-> validated]
        /\ ret' = << done.returned >>
        /\ IF done.wrote
           THEN /\ clock' = After(clock, elapsed)
                /\ license_file' =
                     Some(generate_license(attempts[done.at].key[1],
                                           _determine_license_type(attempts[done.at].key[1]),
                                           NoDuration, machine_id, clock, clock', iv))
                /\ file_source' = [by |-> "activate_license", at |-> clock']
           ELSE UNCHANGED << clock, license_file, file_source >>
        /\ UNCHANGED << held_key, key_source, machine_id, held_license, license_source,
                        token, receipt_file, machine_id_file, descriptors, callers, startup >>

NextLicenseFile ==
  \/ \E text \in DamagedLicenseTexts \cup EmptyLicenseTexts : WriteLicenseFile(text)
  \/ RemoveLicenseFile
  \/ LoadLicense
  \/ ValidateStored
  \/ \E k \in StartupKeys, e \in 0..MaxElapsed, iv \in Ivs, saved \in BOOLEAN :
       ActivateLicense(k, e, iv, saved)
  \/ \E parent \in BOOLEAN : CheckLicenseOnStartup(parent)

SpecLicenseFile == InitLicense /\ [][NextLicenseFile]_vars
(***************************************************************************)
(* Properties of the license file                                          *)
(***************************************************************************)
\* there is no license file, or its text is no JSON
FileUnreadable ==
  \/ license_file = NoDict
  \/ IsLicenseText(license_file) /\ license_file[1].text \in DamagedLicenseTexts

\* a record that activate_license wrote in the step that led here
WrittenNow ==
  /\ license_file # NoDict
  /\ ~IsLicenseText(license_file)
  /\ file_source = [by |-> "activate_license", at |-> clock]
  /\ _verify_license_signature(license_file[1])

\* C17: when the license file is missing, empty, cut short or no JSON,
\* load_license returns None and validate_license() answers that no
\* license was found.
C17_UnreadableFileIsAbsent ==
  /\ (call.op = "load_license" /\ FileUnreadable) => ret = NoDict
  /\ (call.op = "validate_license" /\ call.given = "file" /\ FileUnreadable)
     => ret = NotFound

C17_TruncatedFileValidated ==
  /\ call.op = "validate_license"
  /\ call.given = "file"
  /\ IsLicenseText(license_file)
  /\ Len(license_file[1].text) > 10
  /\ license_file[1].text \in DamagedLicenseTexts
  /\ ret = NotFound

\* C19: activate_license returns True only when the record was written to
\* the license file; when save_license fails it returns the save error; and
\* check_license_on_startup returns True only for a license that validated
\* or for an activation whose record was written.
C19_FailedWriteReported ==
  /\ (call.op = "activate_license" /\ ret[1]) => (call.saved /\ WrittenNow)
  /\ ( /\ call.op = "activate_license"
       /\ ~call.saved
       /\ _validate_license_key_format(call.license_key)
       /\ _determine_license_type(call.license_key) # None )
     => ret = << FALSE, "Errore nel salvataggio della licenza" >>
  /\ (call.op = "check_license_on_startup" /\ ret[1])
     => \/ call.validated = Valid
        \/ /\ call.attempts # << >>
           /\ call.attempts[Len(call.attempts)].saved
           /\ WrittenNow

C19_FailedSaveAtStartup ==
  /\ call.op = "check_license_on_startup"
  /\ ~call.parent
  /\ Len(call.attempts) = 1
  /\ call.attempts[1].key # << >>
  /\ _validate_license_key_format(call.attempts[1].key[1])
  /\ _determine_license_type(call.attempts[1].key[1]) # None
  /\ ~call.attempts[1].saved
  /\ ret = << FALSE >>
(***************************************************************************)
(* The machine id and its cache file (license_manager.py, lines 91-135)    *)
(***************************************************************************)
\* the characters str.strip() removes
StripChars == { " ", "\t", "\n", "\r" }

\* s.strip()
Strip(s) ==
  IF \A k \in 1..Len(s) : s[k] \in StripChars THEN << >>
  ELSE SubSeq(s, CHOOSE i \in 1..Len(s) :
                   s[i] \notin StripChars /\ \A k \in 1..(i - 1) : s[k] \in StripChars,
                 CHOOSE j \in 1..Len(s) :
                   s[j] \notin StripChars /\ \A k \in (j + 1)..Len(s) : s[k] \in StripChars)

\* "|".join(filter(None, machine_info)) for the descriptors d, on a system
\* other than Windows
MachineString(d) ==
  LET machine_info == << d.node, d.machine, d.processor, d.mac >>
      kept == SelectSeq(machine_info, LAMBDA x : x # << >>)
  IN  IF kept = << >> THEN << >>
      ELSE kept[1] \o (IF Len(kept) > 1 THEN << "|" >> \o kept[2] ELSE << >>)
                   \o (IF Len(kept) > 2 THEN << "|" >> \o kept[3] ELSE << >>)
                   \o (IF Len(kept) > 3 THEN << "|" >> \o kept[4] ELSE << >>)

\* the except clause (lines 132-135): an id from the host name, nothing
\* written
FallbackId(file, d) == [machine_id |-> Sha256Hex16(d.node), file |-> file]

\* _get_or_create_machine_id that computes the id whatever the file holds
_get_or_create_machine_id_Recomputing(file, d, readable, writable) ==
  IF ~writable THEN FallbackId(file, d)
  ELSE [machine_id |-> Sha256Hex16(MachineString(d)),
        file |-> << Sha256Hex16(MachineString(d)) >>]

\* LicenseManager._get_or_create_machine_id() with the cache file (the
\* empty sequence when absent), the descriptors of the machine, and whether
\* the file can be read and written: the id and the file afterwards
_get_or_create_machine_id(file, d, readable, writable) ==
  IF file # << >> /\ ~readable THEN FallbackId(file, d)
  ELSE IF file # << >> /\ Strip(file[1]) # << >>
       THEN [machine_id |-> Strip(file[1]), file |-> file]
  ELSE IF ~writable THEN FallbackId(file, d)
  ELSE [machine_id |-> Sha256Hex16(MachineString(d)),
        file |-> << Sha256Hex16(MachineString(d)) >>]

\* contents of .machine_id after someone else wrote it: an id followed by a
\* line feed, an id between blanks, blanks only, nothing, another id
ForeignMachineIdTexts ==
  { HexMachine \o << "\n" >>,
    << " " >> \o DecimalMachine \o << " ", "\n" >>,
    << " ", "\n" >>,
    << >>,
    OtherMachine }

\* LicenseManager(base_path): the manager is constructed
Construct(readable, writable) ==
  \E made \in { _get_or_create_machine_id(machine_id_file, descriptors, readable, writable) } :
    /\ machine_id' = made.machine_id
    /\ machine_id_file' = made.file
    /\ call' = [op |-> "LicenseManager", before |-> machine_id_file,
                readable |-> readable, writable |-> writable]
    /\ ret' = made.machine_id
    /\ UNCHANGED << held_key, key_source, clock, license_file, file_source, held_license,
                    license_source, token, receipt_file, descriptors, callers, startup >>

\* the machine is renamed, or its descriptors go or come back
ChangeDescriptors(d) ==
  /\ d # descriptors
  /\ descriptors' = d
  /\ call' = [op |-> "change descriptors"]
  /\ ret' = None
  /\ UNCHANGED << held_key, key_source, clock, machine_id, license_file, file_source,
                  held_license, license_source, token, receipt_file, machine_id_file, callers, startup >>

\* .machine_id is written from outside the manager
WriteMachineIdFile(text) ==
  /\ machine_id_file' = << text >>
  /\ call' = [op |-> "write .machine_id"]
  /\ ret' = None
  /\ UNCHANGED << held_key, key_source, clock, machine_id, license_file, file_source,
                  held_license, license_source, token, receipt_file, descriptors, callers, startup >>

\* .machine_id is removed
RemoveMachineIdFile ==
  /\ machine_id_file # << >>
  /\ machine_id_file' = << >>
  /\ call' = [op |-> "remove .machine_id"]
  /\ ret' = None
  /\ UNCHANGED << held_key, key_source, clock, machine_id, license_file, file_source,
                  held_license, license_source, token, receipt_file, descriptors, callers, startup >>

NextMachine ==
  \/ \E readable \in BOOLEAN, writable \in BOOLEAN : Construct(readable, writable)
  \/ \E d \in Descriptors : ChangeDescriptors(d)
  \/ \E text \in ForeignMachineIdTexts : WriteMachineIdFile(text)
  \/ RemoveMachineIdFile

SpecMachine == InitLicense /\ [][NextMachine]_vars

(***************************************************************************)
(* Properties of the machine id                                            *)
(***************************************************************************)
ConstructedOn(content) ==
  call.op = "LicenseManager" /\ call.before = << content >>

\* C20 as stated: once .machine_id has content, a manager constructed on it
\* has that content for machine_id, and the file is not written.
C20_ContentReusedVerbatim ==
  (call.op = "LicenseManager" /\ call.before # << >> /\ call.before[1] # << >>)
  => (machine_id = call.before[1] /\ machine_id_file = call.before)

\* C20: once .machine_id can be read and has content other than white
\* space, a manager constructed on it has that content, stripped, for
\* machine_id, whatever the descriptors are, and the file is not written;
\* the file is written only when it was absent or held nothing but white
\* space, and then with the id computed from the descriptors; when the file
\* cannot be read the id comes from the host name and the file is kept.
C20_StrippedContentReused ==
  /\ ( /\ call.op = "LicenseManager"
       /\ call.before # << >>
       /\ call.readable
       /\ \E k \in 1..Len(call.before[1]) : call.before[1][k] \notin StripChars )
     => /\ machine_id = Strip(call.before[1])
        /\ machine_id_file = call.before
  /\ (call.op = "LicenseManager" /\ machine_id_file # call.before)
     => /\ call.before = << >> \/ \A k \in 1..Len(call.before[1]) : call.before[1][k] \in StripChars
        /\ machine_id_file = << Sha256Hex16(MachineString(descriptors)) >>
        /\ machine_id = machine_id_file[1]
  /\ (call.op = "LicenseManager" /\ call.before # << >> /\ ~call.readable)
     => /\ machine_id = Sha256Hex16(descriptors.node)
        /\ machine_id_file = call.before

\* a manager constructed on the id cached for the workstation after the
\* descriptors have gone
C20_CachedAfterDescriptorsGone ==
  /\ call.op = "LicenseManager"
  /\ call.readable
  /\ descriptors = Bare
  /\ call.before = << Sha256Hex16(MachineString(Workstation)) >>
  /\ machine_id = Sha256Hex16(MachineString(Workstation))

(***************************************************************************)
(* Several calls of _get_or_create_machine_id at once                      *)
(*                                                                         *)
(* Each caller runs the function's statements in order; between two        *)
(* statements another caller may run.  open(path, 'w') creates or          *)
(* truncates the file at once and the text written reaches it when the     *)
(* with block closes the file.                                             *)
(***************************************************************************)

\* the identifier computed from what the platform reports
ComputedId == Sha256Hex16(MachineString(descriptors))

\* nobody holds a machine id file yet: the first run on this base path
InitRace ==
  /\ call = [op |-> "none"]
  /\ ret = None
  /\ held_key = None
  /\ key_source = [by |-> "none"]
  /\ clock = StartClock
  /\ machine_id = HexMachine
  /\ license_file = NoDict
  /\ file_source = [by |-> "none"]
  /\ held_license = NoDict
  /\ license_source = [by |-> "none"]
  /\ token = NoDict
  /\ receipt_file = << >>
  /\ machine_id_file = << >>
  /\ descriptors = Workstation
  /\ callers = NoCallers
  /\ startup = NotStarted

NotRaceVars == << call, ret, held_key, key_source, clock, machine_id, license_file,
                  file_source, held_license, license_source, token, receipt_file,
                  descriptors, startup >>

\* the call begins
EnterGetOrCreate(p) ==
  /\ callers[p].pc = "idle"
  /\ callers' = [callers EXCEPT ![p] = [pc |-> "exists"]]
  /\ UNCHANGED machine_id_file
  /\ UNCHANGED NotRaceVars

\* if os.path.exists(self.machine_id_file):
TestExists(p) ==
  /\ callers[p].pc = "exists"
  /\ callers' = [callers EXCEPT ![p] =
                   [pc |-> IF machine_id_file # << >> THEN "read" ELSE "compute"]]
  /\ UNCHANGED machine_id_file
  /\ UNCHANGED NotRaceVars

\* with open(..., 'r') as f: machine_id = f.read().strip();
\* if machine_id: return machine_id
ReadCached(p) ==
  /\ callers[p].pc = "read"
  /\ machine_id_file # << >>
  /\ callers' = [callers EXCEPT ![p] =
                   IF Strip(machine_id_file[1]) # << >>
                   THEN [pc |-> "returned", read |-> machine_id_file[1],
                         machine_id |-> Strip(machine_id_file[1])]
                   ELSE [pc |-> "compute", read |-> machine_id_file[1]]]
  /\ UNCHANGED machine_id_file
  /\ UNCHANGED NotRaceVars

\* machine_id = hashlib.sha256(machine_string.encode()).hexdigest()[:16]
ComputeId(p) ==
  /\ callers[p].pc = "compute"
  /\ callers' = [callers EXCEPT ![p] =
                   [pc |-> "open", machine_id |-> ComputedId] @@ callers[p]]
  /\ UNCHANGED machine_id_file
  /\ UNCHANGED NotRaceVars

\* with open(self.machine_id_file, 'w') as f:
OpenForWriting(p) ==
  /\ callers[p].pc = "open"
  /\ callers' = [callers EXCEPT ![p] = [pc |-> "write"] @@ callers[p]]
  /\ machine_id_file' = << << >> >>
  /\ UNCHANGED NotRaceVars

\* f.write(machine_id), the file closed at the end of the block;
\* return machine_id
WriteAndReturn(p) ==
  /\ callers[p].pc = "write"
  /\ callers' = [callers EXCEPT ![p] = [pc |-> "returned"] @@ callers[p]]
  /\ machine_id_file' = << callers[p].machine_id >>
  /\ UNCHANGED NotRaceVars

NextRace ==
  \/ \E p \in Callers : EnterGetOrCreate(p)
  \/ \E p \in Callers : TestExists(p)
  \/ \E p \in Callers : ReadCached(p)
  \/ \E p \in Callers : ComputeId(p)
  \/ \E p \in Callers : OpenForWriting(p)
  \/ \E p \in Callers : WriteAndReturn(p)

SpecRace == InitRace /\ [][NextRace]_vars

\* what caller p found in the file, when it has read it
HasRead(p) == "read" \in DOMAIN callers[p]
Returned(p) == callers[p].pc = "returned"

\* every caller that has returned holds the same complete identifier
CallersAgree ==
  \A p \in Callers : Returned(p) =>
     /\ callers[p].machine_id = ComputedId
     /\ Len(callers[p].machine_id) = 16

\* C21: when several first-time callers race, the identifier file is
\* written atomically: no caller reads a file that is there without the
\* complete identifier in it, and all of them return the same identifier
C21_CacheWrittenAtomically ==
  /\ \A p \in Callers : HasRead(p) => callers[p].read = ComputedId
  /\ CallersAgree

(***************************************************************************)
(* The stored record: activation, and the operations that read it          *)
(***************************************************************************)
\* d.get(field, default)
GetOr(d, field, default) == IF field \in DOMAIN d THEN d[field] ELSE default

Unknown == << "U", "n", "k", "n", "o", "w", "n" >>

\* (expiry - now).days: whole days, rounded down
DaysBetween(expiry, now) ==
  IF expiry[2] < now[2] \/ (expiry[2] = now[2] /\ expiry[3] < now[3])
  THEN expiry[1] - now[1] - 1
  ELSE expiry[1] - now[1]

\* the days_remaining entry of get_license_info
days_remaining(is_valid, license_data, now) ==
  IF is_valid /\ Get(license_data, "expiry_date") # UNLIMITED
  THEN IF DaysBetween(FromIsoFormat(license_data.expiry_date)[2], now) > 0
       THEN DaysBetween(FromIsoFormat(license_data.expiry_date)[2], now)
       ELSE 0
  ELSE -1

\* the dict get_license_info builds from the record and its validation
LicenseInfo(license_data, validated, mid, now) ==
  [valid |-> validated[1],
   message |-> Tail(validated),
   license_type |-> GetOr(license_data, "license_type", Unknown),
   expiry_date |-> GetOr(license_data, "expiry_date", Unknown),
   features |-> GetOr(license_data, "features", << >>),
   machine_id |-> mid,
   days_remaining |-> days_remaining(validated[1], license_data, now)]

\* get_license_info(): None without a record
get_license_info(file, mid, now) ==
  IF load_license(file) = NoDict \/ DOMAIN load_license(file)[1] = {} THEN None
  ELSE LicenseInfo(load_license(file)[1],
                   validate_license(load_license(file), file, mid, now), mid, now)

\* get_decrypted_license_key(): None without a record or without its key
get_decrypted_license_key(file, mid) ==
  IF load_license(file) = NoDict \/ DOMAIN load_license(file)[1] = {} THEN None
  ELSE IF "license_key" \notin DOMAIN load_license(file)[1] THEN None
  ELSE _decrypt_license_key(load_license(file)[1].license_key, mid)

\* LicenseManager.get_license_info()
GetLicenseInfo ==
  /\ call' = [op |-> "get_license_info"]
  /\ ret' = get_license_info(license_file, machine_id, clock)
  /\ UNCHANGED << held_key, key_source, clock, machine_id, license_file, file_source,
                  held_license, license_source, token, receipt_file, machine_id_file,
                  descriptors, callers, startup >>

\* LicenseManager.get_decrypted_license_key()
GetDecryptedLicenseKey ==
  /\ call' = [op |-> "get_decrypted_license_key"]
  /\ ret' = get_decrypted_license_key(license_file, machine_id)
  /\ UNCHANGED << held_key, key_source, clock, machine_id, license_file, file_source,
                  held_license, license_source, token, receipt_file, machine_id_file,
                  descriptors, callers, startup >>

\* a caller keeps what load_license() returned
KeepLoaded ==
  /\ load_license(license_file) # NoDict
  /\ call' = [op |-> "load_license"]
  /\ ret' = load_license(license_file)
  /\ held_license' = load_license(license_file)
  /\ license_source' = [by |-> "load_license", at |-> clock]
  /\ UNCHANGED << held_key, key_source, clock, machine_id, license_file, file_source,
                  token, receipt_file, machine_id_file, descriptors, callers, startup >>

\* keys typed into activate_license: a predefined key, a generated key, two
\* keys of the generated shape whose last part is not the checksum, and a
\* text of no known format
PredefinedTrial == << "T", "R", "I", "A", "L", "-", "2", "0", "2", "4", "-", "V", "E", "R", "I", "F", "I", "C", "A" >>
GeneratedEnterprise == << "V", "E", "2", "4", "-", "2", "6", "1", "1", "-", "A", "C", "M", "E", "-", "A", "A", "3", "B", "C", "-", "8", "3", "5", "4" >>
WrongChecksumProx == << "V", "S", "2", "4", "-", "2", "6", "1", "1", "-", "P", "R", "O", "X", "-", "A", "A", "3", "B", "C", "-", "0", "0", "0", "0" >>
WrongChecksumAcme == << "V", "X", "2", "4", "-", "2", "6", "1", "1", "-", "A", "C", "M", "E", "-", "A", "A", "3", "B", "C", "-", "0", "0", "0", "0" >>
NoFormat == << "H", "E", "L", "L", "O", "-", "W", "O", "R", "L", "D" >>

StoredKeys ==
  { PredefinedTrial, GeneratedEnterprise, WrongChecksumProx, WrongChecksumAcme, NoFormat }

NextStored ==
  \/ \E k \in StoredKeys, e \in 0..MaxElapsed, iv \in Ivs, saved \in BOOLEAN :
       ActivateLicense(k, e, iv, saved)
  \/ LoadLicense
  \/ KeepLoaded
  \/ ValidateStored
  \/ GetLicenseInfo
  \/ GetDecryptedLicenseKey
  \/ Tick

SpecStored == InitLicense /\ [][NextStored]_vars

(***************************************************************************)
(* Properties of the stored record                                         *)
(***************************************************************************)
\* the operations that only read the license file
ReadingOps ==
  { "validate_license", "get_license_info", "load_license",
    "get_decrypted_license_key" }

\* the record activate_license makes of the key of the step, and nothing else
RecordOfThisKey ==
  \E iv \in Ivs :
    license_file' =
      Some(generate_license(call'.license_key,
                            _determine_license_type(call'.license_key),
                            NoDuration, machine_id, clock, clock', iv))

\* C22: the record is replaced as a whole: after a successful
\* activate_license the file holds exactly the record made of that key,
\* whatever it held before, load_license returns what the file holds, and
\* validate_license, get_license_info, load_license and
\* get_decrypted_license_key leave the file as it is.
C22_RecordReplacedWhole ==
  [][ /\ (call'.op = "activate_license" /\ ret'[1]) => RecordOfThisKey
      /\ call'.op = "load_license" => ret' = license_file'
      /\ call'.op \in ReadingOps => license_file' = license_file ]_vars

\* a record of the predefined key was loaded, then the generated key was
\* activated and loaded
C22_SecondActivationLoaded ==
  /\ call.op = "load_license"
  /\ ret # NoDict
  /\ ret[1].license_type = ENTERPRISE
  /\ _decrypt_license_key(ret[1].license_key, machine_id) = GeneratedEnterprise
  /\ held_license # NoDict
  /\ license_source.by = "load_license"
  /\ held_license[1].license_type = TRIAL
  /\ _decrypt_license_key(held_license[1].license_key, machine_id) = PredefinedTrial

\* the key of the step has the shape of a generated key and its last part is
\* not the checksum of the others
WrongChecksumTyped ==
  /\ call.op = "activate_license"
  /\ generated_pattern(Upper(call.license_key))
  /\ ~_verify_generated_key_checksum(Upper(call.license_key))

\* the file holds a record made of the key of the step
HoldsRecordOfTypedKey ==
  /\ license_file # NoDict
  /\ _decrypt_license_key(license_file[1].license_key, machine_id) = call.license_key

\* C24: activate_license never succeeds for a key of the generated shape
\* whose checksum is wrong: it answers with a failure and saves no record.
C24_WrongChecksumNeverActivates ==
  WrongChecksumTyped => (~ret[1] /\ ~HoldsRecordOfTypedKey)

\* the answers of activate_license to a key it does not take
RefusedKey ==
  { << FALSE, "Formato chiave di licenza non valido" >>,
    << FALSE, "Chiave di licenza non riconosciuta" >> }

\* C25: an activate_license that fails on the format of the key or on its
\* type leaves the license file as it was, and a license that was valid
\* before the call is valid after it.
C25_FailedActivationKeepsRecord ==
  [][ (call'.op = "activate_license" /\ ret' \in RefusedKey)
      => /\ license_file' = license_file
         /\ (validate_license(NoDict, license_file, machine_id, clock) = Valid
             => validate_license(NoDict, license_file', machine_id', clock') = Valid) ]_vars

\* a key was refused while a valid license is in the file
C25_RefusedWhileLicensed ==
  /\ call.op = "activate_license"
  /\ ret \in RefusedKey
  /\ license_file # NoDict
  /\ validate_license(NoDict, license_file, machine_id, clock) = Valid

(***************************************************************************)
(* The stored record edited from outside, and the machine changing under   *)
(* it                                                                      *)
(***************************************************************************)
AllFeatures == << "basic", "advanced", "premium", "enterprise" >>
Corrupted == << "Z", "0", "F", "B", "Q", "U", "F", "B" >>

\* what an edit of license.json writes into a field
StoredEdits ==
  { << "features", AllFeatures >>, << "features", << >> >>,
    << "version", << "9", ".", "9" >> >>,
    << "license_key", Corrupted >> }

\* a field of the record in license.json is overwritten by hand; the
\* signature stays
EditStored(field, v) ==
  /\ file_source.by = "activate_license"
  /\ license_file # NoDict
  /\ license_file[1][field] # v
  /\ license_file' = Some([license_file[1] EXCEPT ![field] = v])
  /\ file_source' = [by |-> "edit", field |-> field, original |-> license_file[1]]
  /\ call' = [op |-> "edit license.json", field |-> field]
  /\ ret' = None
  /\ UNCHANGED << held_key, key_source, clock, machine_id, held_license, license_source,
                  token, receipt_file, machine_id_file, descriptors, callers, startup >>

InfoKeys == { PredefinedTrial, GeneratedEnterprise }

NextInfo ==
  \/ \E k \in InfoKeys, iv \in Ivs : ActivateLicense(k, 0, iv, TRUE)
  \/ \E x \in StoredEdits : EditStored(x[1], x[2])
  \/ RemoveMachineIdFile
  \/ ChangeDescriptors(Renamed)
  \/ Construct(TRUE, TRUE)
  \/ ValidateStored
  \/ GetLicenseInfo
  \/ GetDecryptedLicenseKey

SpecInfo == InitLicense /\ [][NextInfo]_vars

(***************************************************************************)
(* Properties of the encrypted key and of the unsigned fields              *)
(***************************************************************************)
\* the stored license_key was encrypted under another machine id, or is no
\* token at all
UndecryptableHere ==
  /\ license_file # NoDict
  /\ \/ license_file[1].machine_id # machine_id
     \/ license_file[1].license_key = Corrupted

\* C23: decrypting the stored license_key under another machine id than the
\* one it was encrypted with, or a corrupted ciphertext, does not raise and
\* gives an outcome that is no key text, so that the caller can tell it from
\* a decryption that worked; under the same machine id decrypting what was
\* encrypted gives the key back.
C23_DecryptFailureDistinct ==
  /\ (call.op = "get_decrypted_license_key" /\ UndecryptableHere)
     => (ret = None /\ ret # license_file[1].license_key)
  /\ \A k \in StoredKeys, iv \in Ivs :
       _decrypt_license_key(_encrypt_license_key(k, machine_id, iv), machine_id) = k

\* the fields of a record that the signature does not cover
UnsignedFields == { "features", "version" }

\* C28: validate_license looks at the signature, the five signed fields,
\* the machine id and the clock only: overwriting features or version in a
\* signed record leaves its outcome as it was, the edited record is not
\* reported as tampered with, and get_license_info gives the outcome of the
\* record as issued together with the features as edited.
C28_UnsignedFieldsIgnored ==
  [][ /\ (call'.op = "edit license.json" /\ call'.field \in UnsignedFields)
         => validate_license(NoDict, license_file', machine_id, clock)
              = validate_license(NoDict, license_file, machine_id, clock)
      /\ ( /\ call'.op = "get_license_info"
           /\ file_source'.by = "edit"
           /\ file_source'.field \in UnsignedFields )
         => /\ << ret'.valid >> \o ret'.message
                 = validate_license(Some(file_source'.original), license_file',
                                    machine_id', clock')
            /\ << ret'.valid >> \o ret'.message # Tampered
            /\ ret'.features = license_file'[1].features ]_vars

\* a trial record whose features were overwritten with all four reports
\* them, and is valid
C28_EditedFeaturesReported ==
  /\ call.op = "get_license_info"
  /\ file_source.by = "edit"
  /\ file_source.field = "features"
  /\ file_source.original.license_type = TRIAL
  /\ file_source.original.features = << "basic" >>
  /\ ret.valid
  /\ ret.features = AllFeatures

(***************************************************************************)
(* check_license_on_startup, statement by statement                        *)
(*                                                                         *)
(* The dialogs are the steps at which the user answers: the key prompt of  *)
(* request_license_key and the retry question of messagebox.askyesno.      *)
(***************************************************************************)
\* request_license_key gave no key: the dialog was cancelled (None) or left
\* empty
NoKeyGiven(answer) == answer = << >> \/ answer[1] = << >>

\* what the key prompt can return: None, the empty text, a typed key
KeyAnswers == { << >>, << << >> >> } \cup { << k >> : k \in StoredKeys }

Running == { "request", "activate", "askyesno" }

\* is_valid, message = self.validate_license(); if is_valid: return True
BeginStartup(parent) ==
  /\ startup.pc \notin Running
  /\ \E validated \in { validate_license(NoDict, license_file, machine_id, clock) } :
       /\ startup' =
            IF validated[1]
            THEN [pc |-> "returned", parent |-> parent, prompts |-> 0, asked |-> 0,
                  result |-> TRUE, last |-> "valid"]
            ELSE [pc |-> "request", parent |-> parent, prompts |-> 0, asked |-> 0]
       /\ call' = [op |-> "check_license_on_startup", step |-> "validate_license",
                   validated |-> validated]
       /\ ret' = IF validated[1] THEN << TRUE >> ELSE None
  /\ UNCHANGED << held_key, key_source, clock, machine_id, license_file, file_source,
                  held_license, license_source, token, receipt_file, machine_id_file,
                  descriptors, callers >>

\* license_key = self.request_license_key(parent);
\* if not license_key: return False
RequestKey(answer) ==
  /\ startup.pc = "request"
  /\ startup' =
       IF NoKeyGiven(answer)
       THEN [pc |-> "returned", parent |-> startup.parent,
             prompts |-> startup.prompts + 1, asked |-> startup.asked,
             result |-> FALSE, last |-> "cancelled"]
       ELSE [pc |-> "activate", parent |-> startup.parent,
             prompts |-> startup.prompts + 1, asked |-> startup.asked,
             key |-> answer[1]]
  /\ call' = [op |-> "check_license_on_startup", step |-> "request_license_key",
              answer |-> answer]
  /\ ret' = IF NoKeyGiven(answer) THEN << FALSE >> ELSE None
  /\ UNCHANGED << held_key, key_source, clock, machine_id, license_file, file_source,
                  held_license, license_source, token, receipt_file, machine_id_file,
                  descriptors, callers >>

\* the loop taking every key typed for an activation
AfterActivation_Optimistic(success) ==
  [pc |-> "returned", parent |-> startup.parent, prompts |-> startup.prompts,
   asked |-> startup.asked, result |-> TRUE, last |-> "activated"]

\* the loop asking whether to try again with or without a parent window
AfterActivation_AlwaysAsking(success) ==
  IF success
  THEN [pc |-> "returned", parent |-> startup.parent, prompts |-> startup.prompts,
        asked |-> startup.asked, result |-> TRUE, last |-> "activated"]
  ELSE [pc |-> "askyesno", parent |-> startup.parent, prompts |-> startup.prompts,
        asked |-> startup.asked]

\* what activate_license answers to each key of the prompt
ActivationReplies ==
  [k \in StoredKeys |-> [saved \in BOOLEAN |-> activate_license(k, saved)]]

\* where the loop stands after activate_license answered
AfterActivation(success) ==
  IF success
  THEN [pc |-> "returned", parent |-> startup.parent, prompts |-> startup.prompts,
        asked |-> startup.asked, result |-> TRUE, last |-> "activated"]
  ELSE IF startup.parent
       THEN [pc |-> "askyesno", parent |-> startup.parent, prompts |-> startup.prompts,
             asked |-> startup.asked]
       ELSE [pc |-> "returned", parent |-> startup.parent, prompts |-> startup.prompts,
             asked |-> startup.asked, result |-> FALSE, last |-> "failed"]

\* success, activation_message = self.activate_license(license_key);
\* if success: return True; without parent: return False
ActivateTyped(elapsed, iv, saved) ==
  /\ startup.pc = "activate"
  /\ clock[3] + elapsed <= MaxTicks
  /\ \E reply \in { ActivationReplies[startup.key][saved] } :
       \E after \in { AfterActivation(reply[1]) } :
         /\ reply \in RefusedKey => elapsed = 0
         /\ startup' = after
         /\ call' = [op |-> "check_license_on_startup", step |-> "activate_license",
                     license_key |-> startup.key, saved |-> saved]
         /\ ret' = IF after.pc = "returned" THEN << after.result >> ELSE None
         /\ clock' = After(clock, elapsed)
         /\ IF reply[1]
            THEN /\ license_file' =
                      Some(generate_license(startup.key, reply[3], NoDuration,
                                            machine_id, clock, After(clock, elapsed), iv))
                 /\ file_source' = [by |-> "activate_license", at |-> After(clock, elapsed)]
            ELSE UNCHANGED << license_file, file_source >>
  /\ UNCHANGED << held_key, key_source, machine_id, held_license, license_source,
                  token, receipt_file, machine_id_file, descriptors, callers >>

\* retry = messagebox.askyesno(...); if not retry: return False.  The user
\* says yes MaxAttempts - 1 times at most.
AskRetry(retry) ==
  /\ startup.pc = "askyesno"
  /\ retry => startup.prompts < MaxAttempts
  /\ startup' =
       IF retry
       THEN [pc |-> "request", parent |-> startup.parent, prompts |-> startup.prompts,
             asked |-> startup.asked + 1]
       ELSE [pc |-> "returned", parent |-> startup.parent, prompts |-> startup.prompts,
             asked |-> startup.asked, result |-> FALSE, last |-> "declined"]
  /\ call' = [op |-> "check_license_on_startup", step |-> "askyesno", retry |-> retry]
  /\ ret' = IF retry THEN None ELSE << FALSE >>
  /\ UNCHANGED << held_key, key_source, clock, machine_id, license_file, file_source,
                  held_license, license_source, token, receipt_file, machine_id_file,
                  descriptors, callers >>

\* the statements of the loop and the answers of the user
StartupStep ==
  \/ \E answer \in KeyAnswers : RequestKey(answer)
  \/ \E e \in 0..MaxElapsed, iv \in Ivs, saved \in BOOLEAN : ActivateTyped(e, iv, saved)
  \/ \E retry \in BOOLEAN : AskRetry(retry)

NextStartup ==
  \/ \E parent \in BOOLEAN : BeginStartup(parent)
  \/ StartupStep
  \/ RemoveLicenseFile

\* the statements of the function run one after the other and every dialog
\* is answered
SpecStartup == InitLicense /\ [][NextStartup]_vars /\ WF_vars(StartupStep)

(***************************************************************************)
(* Properties of the startup check                                         *)
(***************************************************************************)
\* the step just taken is one of check_license_on_startup and it returns
Returns ==
  /\ call'.op = "check_license_on_startup"
  /\ startup'.pc = "returned"

\* C26: check_license_on_startup returns True only when validate_license()
\* on the license file is valid at the return; with a license that is valid
\* at the start it returns True without a key prompt; and when the user
\* gives no key at the prompt it returns False.
C26_TrueOnlyWhenValid ==
  [][ /\ (Returns /\ startup'.result)
         => validate_license(NoDict, license_file', machine_id', clock') = Valid
      /\ ( /\ call'.op = "check_license_on_startup"
           /\ call'.step = "validate_license"
           /\ call'.validated = Valid )
         => (Returns /\ startup'.result /\ startup'.prompts = 0)
      /\ ( /\ call'.op = "check_license_on_startup"
           /\ call'.step = "request_license_key"
           /\ NoKeyGiven(call'.answer) )
         => (Returns /\ ~startup'.result) ]_vars

\* True after a refused key, a yes to the retry question and a key that
\* activates
C26_ActivatedOnSecondTry ==
  /\ startup.pc = "returned"
  /\ startup.result
  /\ startup.last = "activated"
  /\ startup.prompts = 2
  /\ validate_license(NoDict, license_file, machine_id, clock) = Valid

\* the prompts made so far: one at most without a parent window, and one
\* more than the retry questions answered with yes at most
PromptsBounded ==
  startup.pc # "idle"
  => /\ ~startup.parent => startup.prompts <= 1
     /\ startup.prompts <= startup.asked + 1

\* the step just taken is the one named, of check_license_on_startup
StepIs(step) == call'.op = "check_license_on_startup" /\ call'.step = step

\* C27: the retry loop ends.  Without a parent window there is one key
\* prompt at most and a failed activation returns False; with a parent
\* window the key is asked for again only after a yes to the retry
\* question; a cancelled prompt, a no to the retry question and an
\* activation that succeeds return at once; so the function returns when
\* the user does not answer yes for ever.
C27_RetryLoopTerminates ==
  /\ []PromptsBounded
  /\ [][ /\ (startup.pc \in Running /\ startup'.pc = "request" /\ startup' # startup)
            => (startup.pc = "askyesno" /\ startup.parent /\ call'.retry)
         /\ ( /\ StepIs("activate_license")
              /\ startup.pc = "activate"
              /\ ~startup.parent
              /\ ~activate_license(call'.license_key, call'.saved)[1] )
            => (Returns /\ ~startup'.result)
         /\ (StepIs("request_license_key") /\ NoKeyGiven(call'.answer))
            => (Returns /\ ~startup'.result)
         /\ (StepIs("askyesno") /\ ~call'.retry) => (Returns /\ ~startup'.result)
         /\ ( /\ StepIs("activate_license")
              /\ startup.pc = "activate"
              /\ activate_license(call'.license_key, call'.saved)[1] )
            => (Returns /\ startup'.result) ]_vars
  /\ (startup.pc \in Running) ~> (startup.pc = "returned")

\* with a parent window: two refused keys, a yes and then a no
C27_DeclinedAfterSecondFailure ==
  /\ startup.pc = "returned"
  /\ startup.parent
  /\ startup.prompts = 2
  /\ startup.asked = 1
  /\ startup.last = "declined"
  /\ ~startup.result

(***************************************************************************)
(* Successive managers on one base path and one machine                    *)
(***************************************************************************)
\* the first manager has been constructed on a base path without
\* .machine_id, the cache file being writable or not
InitInstances ==
  \E writable \in BOOLEAN :
    \E made \in { _get_or_create_machine_id(<< >>, Workstation, TRUE, writable) } :
      /\ call = [op |-> "LicenseManager", before |-> << >>,
                 readable |-> TRUE, writable |-> writable]
      /\ ret = made.machine_id
      /\ held_key = None
      /\ key_source = [by |-> "none"]
      /\ clock = StartClock
      /\ machine_id = made.machine_id
      /\ license_file = NoDict
      /\ file_source = [by |-> "none"]
      /\ held_license = NoDict
      /\ license_source = [by |-> "none"]
      /\ token = NoDict
      /\ receipt_file = << >>
      /\ machine_id_file = made.file
      /\ descriptors = Workstation
      /\ callers = NoCallers
      /\ startup = NotStarted

\* managers are constructed one after the other, the cache file readable
\* and writable or not; each activates, validates and reports
NextInstances ==
  \/ \E readable \in BOOLEAN, writable \in BOOLEAN : Construct(readable, writable)
  \/ \E k \in InfoKeys, iv \in Ivs : ActivateLicense(k, 0, iv, TRUE)
  \/ ValidateStored
  \/ GetLicenseInfo
  \/ Tick

SpecInstances == InitInstances /\ [][NextInstances]_vars

\* the license file holds a record as activate_license wrote it
IssuedHere == license_file # NoDict /\ file_source.by = "activate_license"

\* C30: a record issued and saved by one manager is valid under every
\* manager constructed later on the same base path and machine, also when
\* the issuing manager got its machine id from the host name alone: the
\* machine id is the same from one manager to the next.
C30_ValidUnderLaterInstances ==
  /\ IssuedHere => license_file[1].machine_id = machine_id
  /\ (IssuedHere /\ call.op = "validate_license" /\ call.given = "file") => ret = Valid
====
